---- MODULE Spec2Model ----
(***************************************************************************)
(* Akula Node v3.2.1: the client-side detection engine (the browser        *)
(* script) as a state machine.  Each action is one callback of the page's  *)
(* single event loop, run to completion: the continuation of init() after  *)
(* an await, a MutationObserver notification, a timer, or a step of the    *)
(* page itself (inserting or removing an element, defining a global).      *)
(*                                                                         *)
(* JavaScript values are modelled as follows.  A string is a sequence of   *)
(* tokens (<<>> is the empty string, which is falsy); String.includes is   *)
(* the contiguous-subsequence test.  A property that may be undefined is   *)
(* a sequence of length 0 (undefined) or 1 (the value).  A thrown          *)
(* exception is the flag err of the heap record h that the functions pass  *)
(* along: once set, the rest of the enclosing code is skipped until a      *)
(* catch clears it.                                                        *)
(***************************************************************************)
EXTENDS Integers, Sequences, FiniteSets, TLC

(* ------------------------------ bounds -------------------------------- *)

\* Slots for the elements the page inserts (beside <html>, <body> and the bait).
MaxNodes == 1
\* Poll cycles of the globals monitor that are counted.
MaxPolls == 2
\* Insertions by the page in one run of Spec, of SpecScan and of SpecReport.
MaxInserts == 1
MaxScanInserts == 1
MaxReportInserts == 4
\* Insertions by the page in one run of SpecProbe.
MaxProbeInserts == 4
\* Insertions by the page in one run of SpecUplink.
MaxUplinkInserts == 2
\* elements the page inserts in SpecIngest, and requests other clients post
MaxIngestInserts == 1
MaxPosts == 1
MaxServePosts == 2
\* elements the page inserts in SpecWire
MaxWireInserts == 2
\* the slots for the nodes of inserted subtrees and shadow trees, and the
\* insertions and shadow roots of a run with them
MaxTreeNodes == 3
MaxTreeInserts == 3

(* ------------------------- program constants -------------------------- *)

FlushThreshold == 5
OverlayZIndex == 2000
DetailMaxLen == 50
PathMaxLen == 255
CacheTtlMs == 10800000
CLIENT_ID == "client-1"
SESSION_ID == "session-1"
SafetyWords == {<<"checkout">>, <<"payment">>, <<"order-received">>, <<"paypal">>, <<"stripe">>}

(* ------------------------------ values -------------------------------- *)

Undefined == <<>>
Def(v) == <<v>>
Get(o) == o[1]
IsDef(o) == o # <<>>

\* String.prototype.includes: p occurs in s as a contiguous run.
Includes(s, p) ==
    \E i \in 0..(Len(s) - Len(p)) : \A j \in 1..Len(p) : s[i + j] = p[j]

\* String.prototype.substring(0, k)
Substring0(s, k) == SubSeq(s, 1, IF Len(s) < k THEN Len(s) ELSE k)

\* Element.matches(selector): the answer of the selector engine for the
\* element, kept as the set of configured selectors the element matches.
matches(el, s) == s \in el.sel

\* parseInt(style.zIndex) > 2000; "auto" parses to NaN, and NaN > 2000 is false.
zIndexAbove(el) == IsDef(el.z) /\ Get(el.z) > OverlayZIndex

(* -------------------------------- DOM --------------------------------- *)

\* Node 1 is <html> (document.documentElement), node 2 is <body> and node 3
\* is the slot of the probe's bait element; the next slots hold the elements
\* the page inserts one by one, and the last ones the nodes of the subtrees
\* and shadow trees it builds.
HtmlNode == 1
BodyNode == 2
BaitNode == 3
NodeIds == 1..(3 + MaxNodes + MaxTreeNodes)
PageNodeIds == 4..(3 + MaxNodes)
TreeNodeIds == (4 + MaxNodes)..(3 + MaxNodes + MaxTreeNodes)

NoElement == [tag |-> "", src |-> <<>>, id |-> <<>>, cls |-> <<>>, sel |-> {},
              pos |-> "static", z |-> <<>>, text |-> <<>>, ownRemove |-> FALSE]
\* A node that is not an element has the name of its kind for a tag.
TextNode == [NoElement EXCEPT !.tag = "#text"]
CommentNode == [NoElement EXCEPT !.tag = "#comment"]
ShadowRootNode == [NoElement EXCEPT !.tag = "#shadow-root"]

\* node.nodeType: 1 for an element, 3 for a text node, 8 for a comment and
\* 11 for a shadow root (a document fragment)
nodeType(el) ==
    IF el.tag = "#text" THEN 3
    ELSE IF el.tag = "#comment" THEN 8
    ELSE IF el.tag = "#shadow-root" THEN 11
    ELSE 1

\* A slot: parent is the parent node, or the host for a shadow root; a
\* shadow root is not among the kids of its host.  observed and queue are
\* those of the MutationObserver on a shadow root.
FreeSlot == [used |-> FALSE, root |-> FALSE, parent |-> 0, kids |-> <<>>, el |-> NoElement,
             observed |-> FALSE, queue |-> <<>>]

Without(seq, x) == SelectSeq(seq, LAMBDA y : y # x)

\* node.parentElement (0 is null): the parent when it is an element
parentElement(dom, n) ==
    IF dom[n].parent # 0 /\ nodeType(dom[dom[n].parent].el) = 1 THEN dom[n].parent ELSE 0

\* the node has a parent (or is the document element of the document)
Linked(dom, n) == dom[n].root \/ dom[n].parent # 0

RECURSIVE InDocument(_, _)
InDocument(dom, n) ==
    IF ~dom[n].used THEN FALSE
    ELSE IF dom[n].root THEN TRUE
    ELSE IF dom[n].parent = 0 THEN FALSE
    ELSE InDocument(dom, dom[n].parent)

\* node.remove(): unlinks the node from its parent; its subtree goes with it.
remove(dom, n) ==
    LET p == dom[n].parent
        d == [dom EXCEPT ![n].parent = 0, ![n].root = FALSE]
    IN  IF p = 0 THEN d ELSE [d EXCEPT ![p].kids = Without(@, n)]

\* parent.appendChild(new element el), the element taking slot n
appendChild(dom, p, n, el) ==
    [dom EXCEPT ![n] = [FreeSlot EXCEPT !.used = TRUE, !.parent = p, !.el = el],
                ![p].kids = Append(@, n)]

\* document.body: the <body> child of the document element, or null (0)
documentBody(dom) ==
    IF dom[HtmlNode].root /\ dom[BodyNode].parent = HtmlNode THEN BodyNode ELSE 0

\* The elements from n up its parentElement links, n first.
RECURSIVE ChainOf(_, _)
ChainOf(dom, n) ==
    IF n = 0 THEN <<>> ELSE <<dom[n].el>> \o ChainOf(dom, parentElement(dom, n))

\* Tree order (a node, then its children's subtrees in order); fuel bounds the recursion.
RECURSIVE PreorderList(_, _, _)
PreorderList(dom, todo, fuel) ==
    IF todo = <<>> \/ fuel = 0 THEN <<>>
    ELSE <<Head(todo)>> \o PreorderList(dom, dom[Head(todo)].kids \o Tail(todo), fuel - 1)

\* document.querySelectorAll('*'): every element of the document, in tree order
querySelectorAll(dom) ==
    IF dom[HtmlNode].root
    THEN SelectSeq(PreorderList(dom, <<HtmlNode>>, Cardinality(NodeIds)),
                   LAMBDA n : nodeType(dom[n].el) = 1)
    ELSE <<>>

\* The nodes of a set together with all their ancestors.
RECURSIVE UpClosure(_, _)
UpClosure(dom, S) ==
    LET T == S \cup ({dom[n].parent : n \in S} \ {0})
    IN  IF T = S THEN S ELSE UpClosure(dom, T)

\* Garbage collection: a node that is outside the document and that no
\* pending notification or timer still refers to (directly or as an
\* ancestor) is unreachable, and its slot is free again.
\* When every node in use has a parent there is nothing outside the
\* document and nothing to collect.
Collect(dom, refs) ==
    IF \A n \in NodeIds : dom[n].used => Linked(dom, n) THEN dom
    ELSE LET keep == {n \in NodeIds : InDocument(dom, n)} \cup UpClosure(dom, refs)
         IN  [n \in NodeIds |->
                 IF ~dom[n].used THEN FreeSlot
                 ELSE IF n \in keep
                 THEN [dom[n] EXCEPT !.kids = SelectSeq(@, LAMBDA k : k \in keep)]
                 ELSE FreeSlot]

(* ------------------------------ reporter ------------------------------ *)

Throw(h) == [h EXCEPT !.err = TRUE]

\* A report() that draws a session id of its own for every event after the first.
EventWithOwnSession(h, type, details, action) ==
    [ts |-> h.now + Len(h.appended),
     session_id |-> IF h.appended = <<>> THEN SESSION_ID ELSE "session-2",
     type |-> type, details |-> details, action |-> action, url |-> h.url]

\* The object report() pushes; a clock reading is taken at each call, and
\* the clock has moved on by one for each event pushed before.
Event(h, type, details, action) ==
    [ts |-> h.now + Len(h.appended), session_id |-> SESSION_ID, type |-> type,
     details |-> details, action |-> action, url |-> h.url]

\* { detail, tag: node.tagName } and { detail: ... }
ElementDetails(detail, el) == [detail |-> detail, tag |-> Def(el.tag)]
PlainDetails(detail) == [detail |-> detail, tag |-> Undefined]

\* flushReports without the reset of reportBuffer.
flushKeepsBuffer(cfg, h) ==
    IF Len(h.buf) = 0 THEN h
    ELSE IF ~IsDef(cfg.reporting) THEN Throw(h)
    ELSE IF ~Get(cfg.reporting).endpoint THEN h
    ELSE [h EXCEPT !.sent = Append(@, [clientId |-> CLIENT_ID, events |-> h.buf,
                                        status |-> "handed"])]

\* flushReports with the reset of reportBuffer in front of JSON.stringify.
flushResetsFirst(cfg, h) ==
    IF Len(h.buf) = 0 THEN h
    ELSE IF ~IsDef(cfg.reporting) THEN Throw(h)
    ELSE IF ~Get(cfg.reporting).endpoint THEN h
    ELSE [h EXCEPT !.sent = Append(@, [clientId |-> CLIENT_ID, events |-> <<>>,
                                        status |-> "handed"]),
                   !.buf = <<>>]

\* flushReports(): reading config.reporting.endpoint throws when the config
\* has no reporting section, but only after the buffer-length test passed.
flushReports(cfg, h) ==
    IF Len(h.buf) = 0 THEN h
    ELSE IF ~IsDef(cfg.reporting) THEN Throw(h)
    ELSE IF ~Get(cfg.reporting).endpoint THEN h
    ELSE [h EXCEPT !.sent = Append(@, [clientId |-> CLIENT_ID, events |-> h.buf,
                                        status |-> "handed"]),
                   !.buf = <<>>]

\* The push of report().
push(h, type, details, action) ==
    [h EXCEPT !.buf = Append(@, Event(h, type, details, action)),
              !.appended = Append(@, Event(h, type, details, action))]

\* The threshold test with > in place of >=.
flushIfOverfull(cfg, h) == IF Len(h.buf) > FlushThreshold THEN flushReports(cfg, h) ELSE h

\* The threshold test of report(), after the push.
flushIfFull(cfg, h) == IF Len(h.buf) >= FlushThreshold THEN flushReports(cfg, h) ELSE h

\* report with > in place of >= in the threshold test.
reportAboveThreshold(cfg, h, type, details, action) ==
    IF Len(h.buf) + 1 > FlushThreshold
    THEN flushReports(cfg, push(h, type, details, action))
    ELSE push(h, type, details, action)

\* report(type, details, action)
report(cfg, h, type, details, action) == flushIfFull(cfg, push(h, type, details, action))

\* catch(e) {}
Swallow(h) == [h EXCEPT !.err = FALSE]

\* eliminate without node.remove(): the event says 'blocked', the node stays.
eliminateKeepsNode(cfg, h, n, type, detail) ==
    IF cfg.mode = "report-only"
    THEN report(cfg, h, type, ElementDetails(detail, h.dom[n].el), "log")
    ELSE Swallow(report(cfg, h, type, ElementDetails(detail, h.dom[n].el), "blocked"))

\* eliminate with report() in front of node.remove().
eliminateReportsFirst(cfg, h, n, type, detail) ==
    IF cfg.mode = "report-only"
    THEN report(cfg, h, type, ElementDetails(detail, h.dom[n].el), "log")
    ELSE IF h.dom[n].el.ownRemove
    THEN Swallow(report(cfg, h, type, ElementDetails(detail, h.dom[n].el), "blocked"))
    ELSE Swallow(report(cfg, [h EXCEPT !.dom = remove(@, n)], type,
                        ElementDetails(detail, h.dom[n].el), "blocked"))

\* eliminate(node, type, detail).  node.remove() throws when the element has
\* a property named remove of its own that is not the method (a form with a
\* control named "remove"): the catch swallows it and report() is not reached.
eliminate(cfg, h, n, type, detail) ==
    IF cfg.mode = "report-only"
    THEN report(cfg, h, type, ElementDetails(detail, h.dom[n].el), "log")
    ELSE IF h.dom[n].el.ownRemove THEN h
    ELSE Swallow(report(cfg, [h EXCEPT !.dom = remove(@, n)], type,
                        ElementDetails(detail, h.dom[n].el), "blocked"))

(* ------------------------------ scanner ------------------------------- *)

\* selectorWalk without the parent traversal: only the node itself is tested.
selectorSelfOnly(wl, dom, current) ==
    current # 0 /\ IsDef(wl.selectors)
        /\ \E s \in Get(wl.selectors) : matches(dom[current].el, s)

\* The while loop of isWhitelisted: the node and its ancestors, selector by selector.
RECURSIVE selectorWalk(_, _, _)
selectorWalk(wl, dom, current) ==
    IF current = 0 THEN FALSE
    ELSE IF IsDef(wl.selectors) /\ \E s \in Get(wl.selectors) : matches(dom[current].el, s)
    THEN TRUE
    ELSE selectorWalk(wl, dom, parentElement(dom, current))

\* isWhitelisted without the tests of the script and iframe sources.
isWhitelistedBySelectorsOnly(cfg, dom, n) ==
    IsDef(cfg.whitelist) /\ selectorWalk(Get(cfg.whitelist), dom, n)

\* isWhitelisted(node)
isWhitelisted(cfg, dom, n) ==
    IF ~IsDef(cfg.whitelist) THEN FALSE
    ELSE LET wl == Get(cfg.whitelist)
             el == dom[n].el
         IN  IF selectorWalk(wl, dom, n) THEN TRUE
             ELSE IF el.tag = "SCRIPT" /\ el.src # <<>> /\ IsDef(wl.scriptSrc)
                     /\ \E x \in Get(wl.scriptSrc) : Includes(el.src, x) THEN TRUE
             ELSE IF el.tag = "IFRAME" /\ el.src # <<>> /\ IsDef(wl.iframeHosts)
                     /\ \E x \in Get(wl.iframeHosts) : Includes(el.src, x) THEN TRUE
             ELSE FALSE

\* signatures.patterns.<list> is readable (neither patterns nor the list is undefined)
HasList(sigs, f) == IsDef(sigs.patterns) /\ IsDef(Get(sigs.patterns)[f])
List(sigs, f) == Get(Get(sigs.patterns)[f])

\* Step 5 of scanNode without the test of config.layers.domShield.
scanOverlayUnshielded(cfg, sigs, h, n) ==
    IF ~((h.dom[n].el.pos = "fixed" \/ h.dom[n].el.pos = "absolute")
            /\ zIndexAbove(h.dom[n].el)) THEN h
    ELSE IF ~HasList(sigs, "textPatterns") THEN Throw(h)
    ELSE IF \E t \in List(sigs, "textPatterns") : Includes(h.dom[n].el.text, t)
         THEN eliminate(cfg, h, n, "heuristic_overlay",
                        Substring0(h.dom[n].el.text, DetailMaxLen))
         ELSE h

\* Step 5 of scanNode: the overlay heuristic.
scanOverlay(cfg, sigs, h, n) ==
    LET el == h.dom[n].el IN
    IF ~Get(cfg.layers).domShield THEN h
    ELSE IF ~((el.pos = "fixed" \/ el.pos = "absolute") /\ zIndexAbove(el)) THEN h
    ELSE IF ~HasList(sigs, "textPatterns") THEN Throw(h)
    ELSE IF \E t \in List(sigs, "textPatterns") : Includes(el.text, t)
         THEN eliminate(cfg, h, n, "heuristic_overlay", Substring0(el.text, DetailMaxLen))
         ELSE h

\* Steps 3 and 4 of scanNode: id, then class.
scanIdClass(cfg, sigs, h, n) ==
    LET el == h.dom[n].el IN
    IF el.id # <<>> /\ ~HasList(sigs, "ids") THEN Throw(h)
    ELSE IF el.id # <<>> /\ el.id \in List(sigs, "ids")
         THEN eliminate(cfg, h, n, "id_match", el.id)
    ELSE IF el.cls # <<>> /\ ~HasList(sigs, "classNames") THEN Throw(h)
    ELSE IF el.cls # <<>> /\ \E c \in List(sigs, "classNames") : Includes(el.cls, c)
         THEN eliminate(cfg, h, n, "class_match", el.cls)
    ELSE scanOverlay(cfg, sigs, h, n)

\* scanNode with the id test moved in front of the source tests.
scanNodeIdFirst(cfg, sigs, h, n) ==
    LET el == h.dom[n].el IN
    IF isWhitelisted(cfg, h.dom, n) THEN h
    ELSE IF el.id # <<>> /\ HasList(sigs, "ids") /\ el.id \in List(sigs, "ids")
         THEN eliminate(cfg, h, n, "id_match", el.id)
    ELSE IF el.tag = "SCRIPT" /\ el.src # <<>>
            /\ \E s \in List(sigs, "scriptSrcPatterns") : Includes(el.src, s)
         THEN eliminate(cfg, h, n, "script_src_match", el.src)
    ELSE IF el.tag = "IFRAME" /\ el.src # <<>>
            /\ \E s \in List(sigs, "iframeSrcPatterns") : Includes(el.src, s)
         THEN eliminate(cfg, h, n, "iframe_src_match", el.src)
    ELSE scanIdClass(cfg, sigs, h, n)

\* scanNode(node)
scanNode(cfg, sigs, h, n) ==
    LET el == h.dom[n].el IN
    IF isWhitelisted(cfg, h.dom, n) THEN h
    ELSE IF el.tag = "SCRIPT" /\ el.src # <<>> /\ ~HasList(sigs, "scriptSrcPatterns") THEN Throw(h)
    ELSE IF el.tag = "SCRIPT" /\ el.src # <<>>
            /\ \E s \in List(sigs, "scriptSrcPatterns") : Includes(el.src, s)
         THEN eliminate(cfg, h, n, "script_src_match", el.src)
    ELSE IF el.tag = "IFRAME" /\ el.src # <<>> /\ ~HasList(sigs, "iframeSrcPatterns") THEN Throw(h)
    ELSE IF el.tag = "IFRAME" /\ el.src # <<>>
            /\ \E s \in List(sigs, "iframeSrcPatterns") : Includes(el.src, s)
         THEN eliminate(cfg, h, n, "iframe_src_match", el.src)
    ELSE scanIdClass(cfg, sigs, h, n)

\* The record of one scanNode call, h before it and r after it: the node,
\* its ancestor chain at the call, the events the call appended, whether
\* the node was linked before and after, whether the call threw.
Logged(h, n, r) ==
    [r EXCEPT !.scans = @ + 1, !.log = Append(@,
            [node |-> n,
             chain |-> ChainOf(h.dom, n),
             emitted |-> SubSeq(r.appended, Len(h.appended) + 1, Len(r.appended)),
             linkedBefore |-> Linked(h.dom, n),
             linkedAfter |-> Linked(r.dom, n),
             threw |-> r.err])]

\* One call of scanNode from a sweep or an observer callback.
ScanCall(cfg, sigs, h, n) == Logged(h, n, scanNode(cfg, sigs, h, n))

\* forEach(scanNode) over a list of nodes: an exception ends the loop.
RECURSIVE scanEach(_, _, _, _)
scanEach(cfg, sigs, h, nodes) ==
    IF nodes = <<>> \/ h.err THEN h
    ELSE scanEach(cfg, sigs, ScanCall(cfg, sigs, h, Head(nodes)), Tail(nodes))

(* ------------------------- monitor and probe -------------------------- *)

\* One turn of the forEach of checkGlobalVars.
checkOne(cfg, whitelistedGlobals, h, varName) ==
    IF varName \in whitelistedGlobals THEN h
    ELSE IF varName \in h.win /\ varName \notin h.reported
    THEN report(cfg, [h EXCEPT !.reported = @ \cup {varName}],
                "global_var_detected", PlainDetails(varName), "log")
    ELSE h

\* checkEach without the whitelist test.
RECURSIVE checkEachIgnoringWhitelist(_, _, _, _)
checkEachIgnoringWhitelist(cfg, whitelistedGlobals, h, names) ==
    IF names = <<>> \/ h.err THEN h
    ELSE checkEachIgnoringWhitelist(cfg, whitelistedGlobals,
                                    checkOne(cfg, {}, h, Head(names)), Tail(names))

\* The forEach of checkGlobalVars over signatures.patterns.globalVars: an
\* exception ends it.
RECURSIVE checkEach(_, _, _, _)
checkEach(cfg, whitelistedGlobals, h, names) ==
    IF names = <<>> \/ h.err THEN h
    ELSE checkEach(cfg, whitelistedGlobals,
                   checkOne(cfg, whitelistedGlobals, h, Head(names)), Tail(names))

\* checkGlobalVars()
checkGlobalVars(cfg, sigs, h) ==
    IF ~HasList(sigs, "globalVars") THEN h
    ELSE LET whitelistedGlobals ==
                 IF IsDef(cfg.whitelist) /\ IsDef(Get(cfg.whitelist).globals)
                 THEN Get(Get(cfg.whitelist).globals) ELSE {}
         IN  checkEach(cfg, whitelistedGlobals, h, List(sigs, "globalVars"))

\* Array.prototype.join(' ')
RECURSIVE Join(_)
Join(strs) ==
    IF strs = <<>> THEN <<>>
    ELSE IF Len(strs) = 1 THEN Head(strs)
    ELSE Head(strs) \o <<" ">> \o Join(Tail(strs))

BaitElement(classes) ==
    [tag |-> "DIV", src |-> <<>>, id |-> <<>>, cls |-> Join(classes), sel |-> {},
     pos |-> "absolute", z |-> <<>>, text |-> <<>>, ownRemove |-> FALSE]

\* runAdBlockerDetection(), up to the setTimeout
runAdBlockerDetection(sigs, h) ==
    IF ~IsDef(sigs.patterns) THEN Throw(h)
    ELSE IF ~IsDef(Get(sigs.patterns).adBlockBaitClasses) THEN h
    ELSE IF documentBody(h.dom) = 0 THEN Throw(h)
    ELSE [h EXCEPT !.dom = appendChild(@, BodyNode, BaitNode,
                                       BaitElement(List(sigs, "adBlockBaitClasses"))),
                   !.pending = IF h.observer THEN Append(@, BaitNode) ELSE @,
                   !.baitTimer = TRUE]

\* baitDiv.remove(), not reached when the report before it threw
removeBait(h) == IF h.err THEN h ELSE [h EXCEPT !.dom = remove(@, BaitNode)]

\* The callback of the probe's setTimeout; blocked is what the layout
\* reports for the bait (zero height or display none).
baitTimeout(cfg, h, blocked) ==
    removeBait(IF blocked
               THEN report(cfg, h, "extension_adblock_detected",
                           PlainDetails(<<"Bait Hidden">>), "warn")
               ELSE h)

(* ----------------------------- controller ----------------------------- *)

\* startStaticLayer(): the observer is registered, then the document is swept.
startStaticLayer(cfg, sigs, h) ==
    scanEach(cfg, sigs, [h EXCEPT !.observer = TRUE], querySelectorAll(h.dom))

\* startBehavioralHooks(): Element.prototype.attachShadow is replaced.
startBehavioralHooks(h) == [h EXCEPT !.hooked = TRUE]

\* An init() that never starts the flush timer.
engageWithoutUplink(cfg, h) == h

\* init(), line by line from "3. Engage Layers"; a line is skipped when an
\* earlier one threw.
engageStatic(cfg, sigs, h) ==
    IF Get(cfg.layers).static THEN startStaticLayer(cfg, sigs, h) ELSE h
engageBehavioral(cfg, h) ==
    IF h.err \/ ~Get(cfg.layers).behavioral THEN h ELSE startBehavioralHooks(h)
engageUplink(cfg, h) ==
    IF h.err \/ ~(IsDef(cfg.reporting) /\ Get(cfg.reporting).endpoint)
    THEN h ELSE [h EXCEPT !.flushTimer = TRUE]
engageProbe(sigs, h) == IF h.err THEN h ELSE runAdBlockerDetection(sigs, h)
engageMonitor(h) == IF h.err THEN h ELSE [h EXCEPT !.globalsTimer = TRUE]

\* init(), steps 3 to 5: everything after the signatures are loaded.
engage(cfg, sigs, h) ==
    IF ~IsDef(cfg.layers) THEN Throw(h)
    ELSE engageMonitor(engageProbe(sigs, engageUplink(cfg, engageBehavioral(cfg,
             engageStatic(cfg, sigs, h)))))

\* SAFETY_REGEX.test(window.location.href)
SafetyRegexTest(url) == \E word \in SafetyWords : Includes(url, word)

\* A gate without the override of the mode "active-checkout".
gatePassesWithoutOverride(cfg, url) == cfg.enabled /\ ~SafetyRegexTest(url)

\* The gate of init() between the config and the signatures.
gatePasses(cfg, url) ==
    cfg.enabled /\ ~(SafetyRegexTest(url) /\ cfg.mode # "active-checkout")

\* A cache test that still accepts an entry whose age is exactly the TTL.
cacheUsableUpToTtl(entry, t) == IsDef(entry) /\ t - Get(entry).ts <= CacheTtlMs

\* loadSignatures(), the cache test: an entry exists and is younger than the TTL.
cacheUsable(entry, t) == IsDef(entry) /\ t - Get(entry).ts < CacheTtlMs

(* ------------------------------ the wire ------------------------------ *)

\* A JSON text is modelled by its structure: an object is a record whose
\* members are present (a sequence of one value) or absent (the empty
\* sequence), a string literal is the sequence of the lexical units between
\* its quotes, a unit being one character or a backslash and the character
\* it escapes.  A string of the engine other than a URL, a detail or a tag
\* text is a single token.

\* A serializer that copies strings between the quotes without escaping.
EscapeNothing(str) == [i \in 1..Len(str) |-> <<str[i]>>]

\* The units of the JSON string literal for str: a quote or a backslash is
\* written behind a backslash.
Escape(str) ==
    [i \in 1..Len(str) |->
        IF str[i] \in {"\"", "\\"} THEN <<"\\", str[i]>> ELSE <<str[i]>>]

\* A string literal is well formed when no quote in it is bare (the literal
\* would end there) and no backslash stands alone.
WellFormed(units) ==
    \A i \in 1..Len(units) : units[i] \notin {<<"\"">>, <<"\\">>}

\* The string a well-formed literal denotes.
Unescape(units) == [i \in 1..Len(units) |-> units[i][Len(units[i])]]

\* JSON.stringify of { detail, tag } or { detail }: a member whose value is
\* undefined is left out.
StringifyDetails(d) ==
    [detail |-> Def(Escape(d.detail)),
     tag    |-> IF IsDef(d.tag) THEN Def(Escape(<<Get(d.tag)>>)) ELSE Undefined]

\* JSON.stringify of one element of reportBuffer.
StringifyEvent(e) ==
    [ts |-> Def(e.ts), session_id |-> Def(Escape(<<e.session_id>>)),
     type |-> Def(Escape(<<e.type>>)), details |-> Def(StringifyDetails(e.details)),
     action |-> Def(Escape(<<e.action>>)), url |-> Def(Escape(e.url))]

\* JSON.stringify({ clientId: CLIENT_ID, events: reportBuffer }); a payload
\* of the engine has no sessionId member.
JSONstringify(payload) ==
    [clientId  |-> Def(Escape(<<payload.clientId>>)),
     sessionId |-> Undefined,
     events    |-> Def([i \in 1..Len(payload.events) |->
                            StringifyEvent(payload.events[i])])]

\* Every string literal of a text is well formed.
LiteralOk(member) == ~IsDef(member) \/ WellFormed(Get(member))
DetailsTextOk(member) ==
    ~IsDef(member) \/ (LiteralOk(Get(member).detail) /\ LiteralOk(Get(member).tag))
EventTextOk(t) ==
    /\ LiteralOk(t.session_id) /\ LiteralOk(t.type) /\ LiteralOk(t.action)
    /\ LiteralOk(t.url) /\ DetailsTextOk(t.details)
TextOk(text) ==
    /\ LiteralOk(text.clientId) /\ LiteralOk(text.sessionId)
    /\ \/ ~IsDef(text.events)
       \/ \A i \in 1..Len(Get(text.events)) : EventTextOk(Get(text.events)[i])

\* The value of a string member: undefined when the member is absent.
ParseString(member) == IF IsDef(member) THEN Def(Unescape(Get(member))) ELSE Undefined
ParseDetails(member) ==
    IF IsDef(member)
    THEN Def([detail |-> ParseString(Get(member).detail), tag |-> ParseString(Get(member).tag)])
    ELSE Undefined
ParseEvent(t) ==
    [ts |-> t.ts, session_id |-> ParseString(t.session_id), type |-> ParseString(t.type),
     details |-> ParseDetails(t.details), action |-> ParseString(t.action),
     url |-> ParseString(t.url)]

\* request.json(): ok is FALSE when the body is not JSON, and the call rejects.
JSONparse(text) ==
    IF ~TextOk(text)
    THEN [ok |-> FALSE, clientId |-> Undefined, sessionId |-> Undefined,
          events |-> Undefined]
    ELSE [ok |-> TRUE, clientId |-> ParseString(text.clientId),
          sessionId |-> ParseString(text.sessionId),
          events |-> IF IsDef(text.events)
                     THEN Def([i \in 1..Len(Get(text.events)) |->
                                  ParseEvent(Get(text.events)[i])])
                     ELSE Undefined]

(* ------------------------ the ingestion worker ------------------------ *)

\* The origins of absolute URLs: "shop" stands for https://shop.example.
Origins == {"shop"}

\* new URL(x) does not throw: x is a string that is an absolute URL.
URLParses(url) == IsDef(url) /\ Get(url) # <<>> /\ Head(Get(url)) \in Origins

RECURSIVE UpToQuery(_)
UpToQuery(str) ==
    IF str = <<>> \/ Head(str) \in {"?", "#"} THEN <<>>
    ELSE <<Head(str)>> \o UpToQuery(Tail(str))

\* new URL(x).pathname
pathname(str) == IF UpToQuery(Tail(str)) = <<>> THEN <<"/">> ELSE UpToQuery(Tail(str))

\* !x for a string that may be undefined
Falsy(member) == ~IsDef(member) \/ Get(member) = <<>>

\* const events = data.events || []
eventsOrEmpty(data) == IF IsDef(data.events) THEN Get(data.events) ELSE <<>>

\* The row one INSERT of the batch adds; id is crypto.randomUUID(), a value
\* no earlier row has, modelled by the row's position in the table.
Row(id, request, data, event, sessionId, path) ==
    [id |-> id, request |-> request, ts |-> event.ts, client_id |-> Get(data.clientId),
     session_id |-> sessionId, type |-> event.type, action |-> event.action, path |-> path]

Reply(status, rows) == [status |-> status, rows |-> rows]

\* bind() of a prepared statement throws for a value that is undefined:
\* event.ts, the session id, event.type, event.action, and
\* JSON.stringify(event.details), which is undefined when the details are.
bindThrows(event, sessionId) ==
    \/ ~IsDef(event.ts) \/ ~IsDef(sessionId) \/ ~IsDef(event.type)
    \/ ~IsDef(event.action) \/ ~IsDef(event.details)

\* A database that runs the statements one after the other, each on its
\* own: the rows before the failing statement stay.
batchStatementByStatement(rows, dbUp) ==
    IF dbUp THEN Reply(200, rows) ELSE Reply(500, SubSeq(rows, 1, Len(rows) - 1))

\* await db.batch(statements) and the reply after it: the statements of a
\* batch run in one transaction, so a batch the database fails (dbUp is
\* FALSE) leaves no row, and the rejection reaches the outer catch.
batch(rows, dbUp) == IF dbUp THEN Reply(200, rows) ELSE Reply(500, <<>>)

\* report-processor.js: the path of an event, with the fallback of the
\* inner catch.
pathOrFallback(url) ==
    IF URLParses(url) THEN pathname(Get(url))
    ELSE IF ~Falsy(url) THEN Substring0(Get(url), PathMaxLen)
    ELSE <<"unknown_path">>

\* report-processor.js: event.session_id || backupSessionId
sessionOrBackup(events, i) ==
    IF ~Falsy(events[i].session_id) THEN events[i].session_id
    ELSE IF ~Falsy(events[1].session_id) THEN events[1].session_id
    ELSE Def(<<"unknown_session">>)

\* handleIncomingReport of report-processor.js; request is the number of
\* the request and nextId the first unused row id.
handleIncomingReport(data, request, nextId, dbUp) ==
    LET events == eventsOrEmpty(data) IN
    IF ~data.ok THEN Reply(500, <<>>)
    ELSE IF Falsy(data.clientId) \/ events = <<>> THEN Reply(400, <<>>)
    ELSE IF \E i \in 1..Len(events) : bindThrows(events[i], sessionOrBackup(events, i))
    THEN Reply(500, <<>>)
    ELSE batch([i \in 1..Len(events) |->
                   Row(nextId + i - 1, request, data, events[i],
                       sessionOrBackup(events, i), pathOrFallback(events[i].url))],
               dbUp)

\* The handlers without an inner catch: new URL(event.url) throws out of
\* events.map for an event whose url does not parse, into the outer catch.
handleWithoutFallback(data, request, nextId, dbUp) ==
    LET events == eventsOrEmpty(data) IN
    IF ~data.ok THEN Reply(500, <<>>)
    ELSE IF Falsy(data.clientId) \/ events = <<>> THEN Reply(400, <<>>)
    ELSE IF \E i \in 1..Len(events) :
                ~URLParses(events[i].url) \/ bindThrows(events[i], events[i].session_id)
    THEN Reply(500, <<>>)
    ELSE batch([i \in 1..Len(events) |->
                   Row(nextId + i - 1, request, data, events[i],
                       events[i].session_id, pathname(Get(events[i].url)))],
               dbUp)

\* The POST /report branch of the first fetch handler of dist/_worker.js.
workerFetchReport(data, request, nextId, dbUp) ==
    handleWithoutFallback(data, request, nextId, dbUp)

\* handleIncomingReport of part_000 (the second handler of dist/_worker.js);
\* the push to the spreadsheet is handed to ctx.waitUntil after the batch
\* and catches its own errors, so it changes neither the reply nor the
\* table and is left out.
handleIncomingReportSheets(data, request, nextId, dbUp) ==
    handleWithoutFallback(data, request, nextId, dbUp)

\* handleIncomingReport of the third handler of dist/_worker.js: it wants a
\* sessionId beside the clientId, and its fallback reads event.url without
\* testing it.
handleIncomingReportLegacy(data, request, nextId, dbUp) ==
    LET events == eventsOrEmpty(data) IN
    IF ~data.ok THEN Reply(500, <<>>)
    ELSE IF Falsy(data.clientId) \/ Falsy(data.sessionId) \/ events = <<>>
    THEN Reply(400, <<>>)
    ELSE IF \E i \in 1..Len(events) :
                \/ ~URLParses(events[i].url) /\ ~IsDef(events[i].url)
                \/ bindThrows(events[i], data.sessionId)
    THEN Reply(500, <<>>)
    ELSE batch([i \in 1..Len(events) |->
                   Row(nextId + i - 1, request, data, events[i], data.sessionId,
                       IF URLParses(events[i].url)
                       THEN pathname(Get(events[i].url))
                       ELSE Substring0(Get(events[i].url), PathMaxLen))],
               dbUp)

Builds == {"report-processor", "worker-bridge", "worker-sheets", "worker-legacy"}

\* POST /report as the deployed build answers it.
handle(build, data, request, nextId, dbUp) ==
    IF build = "report-processor" THEN handleIncomingReport(data, request, nextId, dbUp)
    ELSE IF build = "worker-bridge" THEN workerFetchReport(data, request, nextId, dbUp)
    ELSE IF build = "worker-sheets"
    THEN handleIncomingReportSheets(data, request, nextId, dbUp)
    ELSE handleIncomingReportLegacy(data, request, nextId, dbUp)

(* ------------------------------- state -------------------------------- *)

VARIABLES
    pc,            \* where init() is or how it ended: "fetchConfig", "loadSigs",
                   \* "running" (the try block completed), "disabled" and "standby"
                   \* (the two early returns), "configFailed", "signaturesFailed"
                   \* and "engageFailed" (the catch, by what threw); "unloaded"
                   \* when the page is gone
    config,        \* let config
    signatures,    \* let signatures
    cache,         \* localStorage[CACHE_KEY_SIGS]: undefined or {ts, data}
    href,          \* window.location.href
    now,           \* Date.now()
    win,           \* the names defined on window
    dom,           \* the nodes
    pending,       \* added nodes the document observer has not been told of yet
    observer,      \* the document MutationObserver is registered
    hooked,        \* Element.prototype.attachShadow is patched
    flushTimer,    \* setInterval(flushReports, ...) is running
    globalsTimer,  \* setInterval(checkGlobalVars, 2000) is running
    baitTimer,     \* the probe's setTimeout is pending
    buf,           \* let reportBuffer
    sent,          \* the payloads handed to the transport, in order
    appended,      \* history: every event pushed to reportBuffer, in order
    reported,      \* let reportedGlobals
    log,           \* history: the scanNode calls of the last callback
    scans,         \* history: the number of scanNode calls so far
    inserts,       \* the number of elements the page has inserted
    palette,       \* the elements the scripts of the page create
    polls,         \* history: the number of checkGlobalVars cycles so far (counted to MaxPolls)
    polled,        \* history: the names that were on window during some cycle
    sigResponse,   \* history: how the fetch of signatures.json ended: "none" (not
                   \* fetched), "rejected", "not json", "ok", or "error status" (a
                   \* response that is not OK and has a JSON body)
    server         \* the ingestion worker: the build deployed, the rows of
                   \* akula_events, the status of each reply, and how many of the
                   \* engine's payloads have arrived

vars == <<pc, config, signatures, cache, href, now, win, dom, pending, observer, hooked,
          flushTimer, globalsTimer, baitTimer, buf, sent, appended, reported, log, scans,
          inserts, palette, polls, polled, sigResponse, server>>

EmptyConfig == [enabled |-> FALSE, mode |-> "", layers |-> Undefined,
                whitelist |-> Undefined, reporting |-> Undefined]
EmptySignatures == [patterns |-> Undefined]
\* the JSON body of an error response: an object without patterns
ErrorBody == EmptySignatures

\* The mutable state as one record, as the functions above take it; log is
\* started afresh for each callback.
World ==
    [dom |-> dom, pending |-> pending, observer |-> observer, hooked |-> hooked,
     flushTimer |-> flushTimer, globalsTimer |-> globalsTimer, baitTimer |-> baitTimer,
     buf |-> buf, sent |-> sent, appended |-> appended, reported |-> reported,
     log |-> <<>>, scans |-> scans, err |-> FALSE, url |-> href, now |-> now, win |-> win]

\* The nodes a queue of an observer or a timer refers to.
Queued(d) == UNION {{d[r].queue[i] : i \in 1..Len(d[r].queue)} : r \in TreeNodeIds}
Refs(w) == {w.pending[i] : i \in 1..Len(w.pending)}
               \cup (IF w.baitTimer THEN {BaitNode} ELSE {})
               \cup Queued(w.dom)

Commit(w) ==
    /\ dom' = Collect(w.dom, Refs(w))
    /\ pending' = w.pending
    /\ observer' = w.observer
    /\ hooked' = w.hooked
    /\ flushTimer' = w.flushTimer
    /\ globalsTimer' = w.globalsTimer
    /\ baitTimer' = w.baitTimer
    /\ buf' = w.buf
    /\ sent' = w.sent
    /\ appended' = w.appended
    /\ reported' = w.reported
    /\ log' = w.log
    /\ scans' = w.scans

(* ---------------------------- construction ---------------------------- *)

\* The state when the script has run its top level and init() waits for
\* the config.  U names the inputs of one specification: the documents,
\* URLs, cache contents and clock readings a run may start from, and the
\* responses and page elements it may meet.
InitOf(U) ==
    /\ pc = "fetchConfig"
    /\ config = EmptyConfig
    /\ signatures = EmptySignatures
    /\ cache \in U.caches
    /\ href \in U.hrefs
    /\ now \in U.clocks
    /\ win \in U.windows
    /\ dom \in U.docs
    /\ pending = <<>>
    /\ observer = FALSE
    /\ hooked = FALSE
    /\ flushTimer = FALSE
    /\ globalsTimer = FALSE
    /\ baitTimer = FALSE
    /\ buf = <<>>
    /\ sent = <<>>
    /\ appended = <<>>
    /\ reported = {}
    /\ log = <<>>
    /\ scans = 0
    /\ inserts = 0
    /\ palette \in U.palettes
    /\ polls = 0
    /\ polled = {}
    /\ sigResponse = "none"
    /\ server \in {[build |-> b, db |-> <<>>, replies |-> <<>>, received |-> 0] :
                      b \in U.builds}

(* ------------------------------ init() -------------------------------- *)

\* The end of init(): through the try block, or through its catch.
Finish(w) ==
    /\ Commit(w)
    /\ pc' = IF w.err THEN "engageFailed" ELSE "running"

\* init() from "3. Engage Layers" to its end, with its catch.
Engage(cfg, sigs) == Finish(engage(cfg, sigs, World))

Rest == <<signatures, cache, href, now, win, dom, pending, observer, hooked, flushTimer,
          globalsTimer, baitTimer, buf, sent, appended, reported, log, scans, inserts,
          palette, polls, polled, server>>
Env == <<href, now, win, inserts, palette, polls, polled, server>>

\* An init() that patches attachShadow before it awaits the config.
ConfigFailsAfterHooks(U) ==
    /\ pc = "fetchConfig"
    /\ \E failure \in U.configFailures : pc' = "configFailed"
    /\ hooked' = TRUE
    /\ UNCHANGED <<config, signatures, cache, href, now, win, dom, pending, observer,
                   flushTimer, globalsTimer, baitTimer, buf, sent, appended, reported,
                   log, scans, inserts, palette, polls, polled, sigResponse, server>>

\* The config fetch fails: the request is rejected, the response is not OK,
\* or its body is not JSON.  init() ends in its catch.
ConfigFails(U) ==
    /\ pc = "fetchConfig"
    /\ \E failure \in U.configFailures : pc' = "configFailed"
    /\ UNCHANGED <<config, sigResponse, Rest>>

\* The config arrives and the gate stops init().
ConfigStandsBy(U) ==
    /\ pc = "fetchConfig"
    /\ \E cfg \in U.configs :
        /\ ~gatePasses(cfg, href)
        /\ config' = cfg
        /\ pc' = IF ~cfg.enabled THEN "disabled" ELSE "standby"
    /\ UNCHANGED <<sigResponse, Rest>>

\* The config arrives, the gate passes and the cached signatures are used:
\* init() runs to its end.
ConfigThenCache(U) ==
    /\ pc = "fetchConfig"
    /\ cacheUsable(cache, now)
    /\ \E cfg \in U.configs :
        /\ gatePasses(cfg, href)
        /\ config' = cfg
        /\ signatures' = Get(cache).data
        /\ Engage(cfg, Get(cache).data)
    /\ UNCHANGED <<cache, sigResponse, Env>>

\* The config arrives, the gate passes and the signatures are fetched.
ConfigThenFetch(U) ==
    /\ pc = "fetchConfig"
    /\ ~cacheUsable(cache, now)
    /\ \E cfg \in U.configs :
        /\ gatePasses(cfg, href)
        /\ config' = cfg
    /\ pc' = "loadSigs"
    /\ UNCHANGED <<sigResponse, Rest>>

\* The signature fetch is rejected, or the body of the response is not JSON.
SignaturesFail(U) ==
    /\ pc = "loadSigs"
    /\ \E failure \in U.sigFailures :
        /\ pc' = "signaturesFailed"
        /\ sigResponse' = failure
    /\ UNCHANGED <<config, Rest>>

\* A JSON body arrives from the signature URL (res.ok is not looked at): it
\* becomes the signatures, is cached, and init() runs to its end.
SignaturesArrive(U) ==
    /\ pc = "loadSigs"
    /\ \E body \in U.sigBodies :
        /\ signatures' = body
        /\ cache' = Def([ts |-> now, data |-> body])
        /\ sigResponse' = IF body = ErrorBody THEN "error status" ELSE "ok"
        /\ Engage(config, body)
    /\ UNCHANGED <<config, Env>>

(* ----------------------------- callbacks ------------------------------ *)

Engine == <<pc, config, signatures, cache, sigResponse>>

\* if (node.nodeType === 1) scanNode(node), over the added nodes of the
\* records a callback is given
scanAdded(cfg, sigs, h, nodes) ==
    scanEach(cfg, sigs, h, SelectSeq(nodes, LAMBDA n : nodeType(h.dom[n].el) = 1))

\* The document observer's callback on the added nodes queued so far.  An
\* exception leaves the callback; the browser reports it and goes on.
ObserverCallback ==
    /\ observer
    /\ pending # <<>>
    /\ Commit([scanAdded(config, signatures, World, pending) EXCEPT !.pending = <<>>])
    /\ UNCHANGED <<Engine, Env>>

\* The callback of the observer of a shadow root, on the nodes queued for
\* it so far.
ShadowObserverCallback ==
    /\ \E r \in NodeIds :
          /\ dom[r].observed
          /\ dom[r].queue # <<>>
          /\ Commit(scanAdded(config, signatures, [World EXCEPT !.dom[r].queue = <<>>],
                              dom[r].queue))
    /\ UNCHANGED <<Engine, Env>>

\* setInterval(flushReports, ...)
FlushTimer ==
    /\ flushTimer
    /\ Commit(flushReports(config, World))
    /\ UNCHANGED <<Engine, Env>>

\* setInterval(checkGlobalVars, 2000)
GlobalsTimer ==
    /\ globalsTimer
    /\ Commit(checkGlobalVars(config, signatures, World))
    /\ polls' = IF polls < MaxPolls THEN polls + 1 ELSE polls
    /\ polled' = polled \cup win
    /\ UNCHANGED <<Engine, href, now, win, inserts, palette, server>>

\* The probe's setTimeout fires.  A bait that is no longer in the document
\* has no layout, so its height is 0.
BaitTimeout ==
    /\ baitTimer
    /\ \E blocked \in (IF InDocument(dom, BaitNode) THEN BOOLEAN ELSE {TRUE}) :
        Commit(baitTimeout(config, [World EXCEPT !.baitTimer = FALSE], blocked))
    /\ UNCHANGED <<Engine, Env>>

(* ------------------------------ the page ------------------------------ *)

CanHoldChildren(el) == el.tag \notin {"SCRIPT", "IFRAME"}

\* A script of the page appends a new element to an element of the document.
PageInsert(U) ==
    /\ inserts < U.maxInserts
    /\ \E n \in PageNodeIds, p \in NodeIds \ {BaitNode}, el \in palette :
        /\ ~dom[n].used
        /\ \A m \in PageNodeIds : m < n => dom[m].used
        /\ InDocument(dom, p)
        /\ CanHoldChildren(dom[p].el)
        /\ Commit([World EXCEPT !.dom = appendChild(@, p, n, el),
                                !.pending = IF observer THEN Append(@, n) ELSE @])
    /\ inserts' = inserts + 1
    /\ UNCHANGED <<Engine, href, now, win, palette, polls, polled, server>>

\* A script of the page removes an element the page inserted.
PageRemove ==
    /\ \E n \in PageNodeIds :
        /\ InDocument(dom, n)
        /\ Commit([World EXCEPT !.dom = remove(@, n)])
    /\ UNCHANGED <<Engine, Env>>

\* The root of the node tree n is in: the document element, a shadow root,
\* or the top of a detached tree.
RECURSIVE treeRoot(_, _)
treeRoot(d, n) ==
    IF d[n].root \/ d[n].parent = 0 \/ nodeType(d[n].el) = 11 THEN n
    ELSE treeRoot(d, d[n].parent)

\* The record of a node n added under p.  It is queued for the observer
\* whose target is the root of p's tree: { childList: true, subtree: true }
\* covers the descendants of the target and stops at a shadow boundary.
\* addedNodes holds the node that was inserted, and not its descendants.
notify(h, p, n) ==
    LET r == treeRoot(h.dom, p)
    IN  IF h.dom[r].root
        THEN (IF h.observer THEN [h EXCEPT !.pending = Append(@, n)] ELSE h)
        ELSE IF h.dom[r].observed THEN [h EXCEPT !.dom[r].queue = Append(@, n)]
        ELSE h

\* The lowest free slot of those for trees, and the one after it.
FreeTreeSlots(d) == {n \in TreeNodeIds : ~d[n].used}
lowestFree(d) == CHOOSE n \in FreeTreeSlots(d) : \A m \in FreeTreeSlots(d) : n <= m
secondFree(d) == lowestFree([d EXCEPT ![lowestFree(d)].used = TRUE])

\* const root = document.create...(); root.appendChild(child);
\* p.appendChild(root): the subtree is built outside the document and
\* enters it in one insertion.  child is undefined for a node on its own.
insertSubtree(h, p, root, child) ==
    LET n == lowestFree(h.dom)
        m == secondFree(h.dom)
        created == [h.dom EXCEPT ![n] = [FreeSlot EXCEPT !.used = TRUE, !.el = root]]
        built == IF IsDef(child) THEN appendChild(created, n, m, Get(child)) ELSE created
    IN  notify([h EXCEPT !.dom = [built EXCEPT ![n].parent = p, ![p].kids = Append(@, n)]],
               p, n)

\* A script of the page inserts a node, or a subtree it has built, under
\* an element of the document or under a shadow root.
PageInsertTree(U) ==
    /\ inserts < U.maxInserts
    /\ \E p \in NodeIds \ {BaitNode},
          root \in palette \cup {TextNode, CommentNode},
          child \in {Undefined} \cup {Def(c) : c \in palette \cup {TextNode}} :
        /\ InDocument(dom, p)
        /\ nodeType(dom[p].el) \in {1, 11}
        /\ CanHoldChildren(dom[p].el)
        /\ IsDef(child) => nodeType(root) = 1 /\ CanHoldChildren(root)
        /\ Cardinality(FreeTreeSlots(dom)) >= 1 + Len(child)
        /\ Commit(insertSubtree(World, p, root, child))
    /\ inserts' = inserts + 1
    /\ UNCHANGED <<Engine, href, now, win, palette, polls, polled, server>>

\* The native attachShadow: a new shadow root on the host, returned to the
\* caller; n is the slot it takes.
originalAttachShadow(d, host, n) ==
    [dom |-> [d EXCEPT ![n] = [FreeSlot EXCEPT !.used = TRUE, !.parent = host,
                                               !.el = ShadowRootNode]],
     shadowRoot |-> n]

\* The function startBehavioralHooks puts on Element.prototype: the native
\* call, an observer on what it returned, and that returned.
patchedAttachShadow(d, host, n) ==
    LET made == originalAttachShadow(d, host, n)
    IN  [dom |-> [made.dom EXCEPT ![made.shadowRoot].observed = TRUE],
         shadowRoot |-> made.shadowRoot]

\* host.attachShadow(init) looks the method up on Element.prototype, which
\* holds the patched function once startBehavioralHooks has run; a caller
\* that took Element.prototype.attachShadow into a variable of its own
\* before that (via = "saved") still calls the native function.
attachShadow(h, host, n, via) ==
    IF h.hooked /\ via = "prototype" THEN patchedAttachShadow(h.dom, host, n)
    ELSE originalAttachShadow(h.dom, host, n)

\* An element that may host a shadow root and has none.
CanHostShadow(d, host) ==
    /\ d[host].el.tag \in {"BODY", "DIV"}
    /\ ~\E r \in NodeIds : d[r].used /\ nodeType(d[r].el) = 11 /\ d[r].parent = host

\* A script of the page gives an element of the document a shadow root,
\* after init() has run to its end.
PageAttachShadow(U) ==
    /\ pc \notin {"fetchConfig", "loadSigs", "unloaded"}
    /\ inserts < U.maxInserts
    /\ FreeTreeSlots(dom) # {}
    /\ \E host \in NodeIds \ {BaitNode}, via \in {"prototype", "saved"} :
        /\ InDocument(dom, host)
        /\ CanHostShadow(dom, host)
        /\ Commit([World EXCEPT
                      !.dom = attachShadow(World, host, lowestFree(dom), via).dom])
    /\ inserts' = inserts + 1
    /\ UNCHANGED <<Engine, href, now, win, palette, polls, polled, server>>

\* The page unloads.  The script registers no unload, pagehide or
\* visibilitychange handler: its observers and timers end with the page and
\* reportBuffer is discarded with the page's heap.  What was handed to the
\* transport stays handed over.
PageUnload ==
    /\ pc # "unloaded"
    /\ pc' = "unloaded"
    /\ observer' = FALSE
    /\ hooked' = FALSE
    /\ flushTimer' = FALSE
    /\ globalsTimer' = FALSE
    /\ baitTimer' = FALSE
    /\ pending' = <<>>
    /\ buf' = <<>>
    /\ log' = <<>>
    /\ UNCHANGED <<config, signatures, cache, href, now, win, dom, sent, appended,
                   reported, scans, inserts, palette, polls, polled, sigResponse, server>>

\* What the worker keeps of a request: who sent it, whether the body
\* parsed, whether it was a batch with a client id and an event, how many
\* events it had and how many of them with a url that new URL() rejects,
\* whether the database was up, the status of the reply and the number of
\* rows inserted.
Served(from, data, dbUp, r) ==
    [server EXCEPT
        !.db = @ \o r.rows,
        !.replies = Append(@, [from |-> from,
                               parsed |-> data.ok,
                               batch |-> /\ data.ok /\ ~Falsy(data.clientId)
                                         /\ eventsOrEmpty(data) # <<>>,
                               events |-> Len(eventsOrEmpty(data)),
                               unparseable |->
                                   Cardinality({i \in 1..Len(eventsOrEmpty(data)) :
                                                   ~URLParses(eventsOrEmpty(data)[i].url)}),
                               dbUp |-> dbUp,
                               status |-> r.status,
                               stored |-> Len(r.rows)]),
        !.received = IF from = "engine" THEN @ + 1 ELSE @]

Request(from, data, dbUp) ==
    Served(from, data, dbUp,
           handle(server.build, data, Len(server.replies) + 1, Len(server.db) + 1, dbUp))

\* The transport posts the oldest payload not yet delivered to the endpoint:
\* the body is the string flushReports made, and the worker parses it; the
\* database takes the batch or fails it.
Deliver ==
    /\ server.received < Len(sent)
    /\ \E dbUp \in BOOLEAN :
          server' = Request("engine", JSONparse(JSONstringify(sent[server.received + 1])),
                            dbUp)
    /\ log' = <<>>
    /\ UNCHANGED <<Engine, href, now, win, dom, pending, observer, hooked, flushTimer,
                   globalsTimer, baitTimer, buf, sent, appended, reported, scans, inserts,
                   palette, polls, polled>>

\* Another client posts a body to the endpoint.
Post(U) ==
    /\ Cardinality({i \in 1..Len(server.replies) : server.replies[i].from = "other"})
          < U.maxPosts
    /\ \E text \in U.posts, dbUp \in BOOLEAN :
          server' = Request("other", JSONparse(text), dbUp)
    /\ log' = <<>>
    /\ UNCHANGED <<Engine, href, now, win, dom, pending, observer, hooked, flushTimer,
                   globalsTimer, baitTimer, buf, sent, appended, reported, scans, inserts,
                   palette, polls, polled>>

\* A script of the page defines a global variable.
PageSetGlobal(U) ==
    /\ \E name \in U.globals \ win : win' = win \cup {name}
    /\ log' = <<>>
    /\ UNCHANGED <<Engine, href, now, dom, pending, observer, hooked, flushTimer,
                   globalsTimer, baitTimer, buf, sent, appended, reported, scans, inserts,
                   palette, polls, polled, server>>

NextOf(U) ==
    \/ ConfigFails(U)
    \/ ConfigStandsBy(U)
    \/ ConfigThenCache(U)
    \/ ConfigThenFetch(U)
    \/ SignaturesFail(U)
    \/ SignaturesArrive(U)
    \/ ObserverCallback
    \/ FlushTimer
    \/ GlobalsTimer
    \/ BaitTimeout
    \/ PageInsert(U)
    \/ PageRemove
    \/ PageSetGlobal(U)

(* ------------------------------- inputs ------------------------------- *)

FullPatterns ==
    [scriptSrcPatterns  |-> Def({<<"evil">>}),
     iframeSrcPatterns  |-> Def({<<"adframe">>}),
     ids                |-> Def({<<"popup">>}),
     classNames         |-> Def({<<"promo">>}),
     textPatterns       |-> Def({<<"win">>}),
     adBlockBaitClasses |-> Def(<< <<"adsbox">>, <<"ad-slot">> >>),
     globalVars         |-> Def(<< <<"honey">>, <<"coupon">> >>)]

FullSignatures == [patterns |-> Def(FullPatterns)]
\* a signature file without the probe's bait classes
NoBaitSignatures == [patterns |-> Def([FullPatterns EXCEPT !.adBlockBaitClasses = Undefined])]
\* a signature file without the list of global variables
NoGlobalsSignatures ==
    [patterns |-> Def([FullPatterns EXCEPT !.globalVars = Undefined,
                                           !.adBlockBaitClasses = Undefined])]

FullWhitelist ==
    [selectors   |-> Def({"#cart-drawer"}),
     scriptSrc   |-> Def({<<"trusted">>}),
     iframeHosts |-> Def({<<"pay">>}),
     globals     |-> Def({<<"honey">>})]
\* a whitelist of the older format, without the lists added later
SelectorWhitelist ==
    [selectors |-> Def({"#cart-drawer"}), scriptSrc |-> Undefined,
     iframeHosts |-> Undefined, globals |-> Undefined]

Modes == {"active", "report-only", "active-checkout"}
Layers(static, behavioral, domShield) ==
    Def([static |-> static, behavioral |-> behavioral, domShield |-> domShield])
Reporting(endpoint) == Def([endpoint |-> endpoint])

Element(tag, src, id, cls, sel, style) ==
    [tag |-> tag, src |-> src, id |-> id, cls |-> cls, sel |-> sel,
     pos |-> style[1], z |-> style[2], text |-> style[3], ownRemove |-> FALSE]

PlainStyle == <<"static", Undefined, <<>> >>
OverlayStyle == <<"fixed", Def(OverlayZIndex + 1), <<"you", " ", "win">> >>

\* styles that miss the overlay rule by one condition each: a z-index of
\* exactly 2000, a position that is not fixed or absolute, a text without
\* a pattern
AtThresholdStyle == <<"fixed", Def(OverlayZIndex), <<"you", " ", "win">> >>
StaticStyle == <<"relative", Def(OverlayZIndex + 1), <<"you", " ", "win">> >>
SilentStyle == <<"absolute", Def(OverlayZIndex + 1), <<"hello">> >>

\* <form id="popup"><input name="remove"></form>: form.remove is the input
ClobberedForm ==
    [Element("FORM", <<>>, <<"popup">>, <<>>, {}, PlainStyle) EXCEPT !.ownRemove = TRUE]

PlainDiv == Element("DIV", <<>>, <<>>, <<>>, {}, PlainStyle)
PopupDiv == Element("DIV", <<>>, <<"popup">>, <<>>, {}, PlainStyle)

\* The document at load: <html> with <body>, body matching the sets of
\* selectors in bodySels.
Document(bodySel) ==
    [n \in NodeIds |->
        IF n = HtmlNode
        THEN [FreeSlot EXCEPT !.used = TRUE, !.root = TRUE, !.kids = <<BodyNode>>,
                              !.el = Element("HTML", <<>>, <<>>, <<>>, {}, PlainStyle)]
        ELSE IF n = BodyNode
        THEN [FreeSlot EXCEPT !.used = TRUE, !.parent = HtmlNode,
                              !.el = Element("BODY", <<>>, <<>>, <<>>, bodySel, PlainStyle)]
        ELSE FreeSlot]

ShopUrl == <<"shop", "/", "product">>
CheckoutUrl == <<"shop", "/", "checkout">>

FreshCache(t) == Def([ts |-> t - CacheTtlMs + 1, data |-> FullSignatures])
StaleCache(t) == Def([ts |-> t - CacheTtlMs, data |-> FullSignatures])

(***************************************************************************)
(* Spec: the engine from construction, over the configs, signature         *)
(* responses, URLs and cache states that decide how init() ends.           *)
(***************************************************************************)
LifeInputs ==
    [configs        |-> {[enabled |-> e, mode |-> m, layers |-> l,
                          whitelist |-> Undefined, reporting |-> r] :
                            e \in BOOLEAN, m \in Modes,
                            l \in {Undefined, Layers(TRUE, TRUE, FALSE), Layers(FALSE, TRUE, FALSE),
                                   Layers(TRUE, FALSE, FALSE)},
                            r \in {Undefined, Reporting(TRUE)}},
     configFailures |-> {"rejected", "not ok", "not json"},
     sigBodies      |-> {FullSignatures, NoBaitSignatures, ErrorBody},
     sigFailures    |-> {"rejected", "not json"},
     caches         |-> {Undefined, FreshCache(2 * CacheTtlMs), StaleCache(2 * CacheTtlMs)},
     hrefs          |-> {ShopUrl, CheckoutUrl},
     clocks         |-> {2 * CacheTtlMs},
     windows        |-> {{}},
     globals        |-> {<<"coupon">>},
     docs           |-> {Document({})},
     palettes       |-> {{PopupDiv}},
     maxInserts     |-> MaxInserts,
     builds         |-> {"report-processor"}]

Init == InitOf(LifeInputs)
Next == NextOf(LifeInputs)
Spec == Init /\ [][Next]_vars

(***************************************************************************)
(* SpecScan: the scanner over every combination of an element's tag,       *)
(* source, id, class, selector match and overlay style, under <html> and   *)
(* <body> that may themselves match a whitelisted selector.                *)
(***************************************************************************)
ScanConfigs ==
    {[enabled |-> TRUE, mode |-> m, layers |-> Layers(TRUE, TRUE, shield),
      whitelist |-> wl, reporting |-> Reporting(TRUE)] :
        m \in {"active", "report-only"}, shield \in BOOLEAN,
        wl \in {Undefined, Def(FullWhitelist)}}

DisabledConfig ==
    [enabled |-> FALSE, mode |-> "active", layers |-> Layers(TRUE, TRUE, TRUE),
     whitelist |-> Undefined, reporting |-> Reporting(TRUE)]

ScanElements ==
    {Element(tag, src, id, cls, sel, style) :
        tag \in {"SCRIPT", "IFRAME", "DIV"},
        src \in {<<>>, <<"cdn", "/", "evil", "/", "adframe">>,
                 <<"trusted", "/", "pay", "/", "evil", "/", "adframe">>},
        id \in {<<>>, <<"popup">>},
        cls \in {<<>>, <<"big", " ", "promo">>},
        sel \in {{}, {"#cart-drawer"}},
        style \in {PlainStyle, OverlayStyle}}
    \cup {Element("DIV", <<>>, <<>>, <<>>, {}, style) :
              style \in {AtThresholdStyle, StaticStyle, SilentStyle}}
    \cup {ClobberedForm}

ScanInputs ==
    [configs        |-> ScanConfigs \cup {DisabledConfig},
     configFailures |-> {"rejected"},
     sigBodies      |-> {NoBaitSignatures},
     sigFailures    |-> {"rejected"},
     caches         |-> {Undefined, Def([ts |-> 2 * CacheTtlMs, data |-> NoBaitSignatures])},
     hrefs          |-> {ShopUrl},
     clocks         |-> {2 * CacheTtlMs},
     windows        |-> {{}},
     globals        |-> {},
     docs           |-> {Document({}), Document({"#cart-drawer"})},
     palettes       |-> {{el} : el \in ScanElements},
     maxInserts     |-> MaxScanInserts,
     builds         |-> {"report-processor"}]

\* The scanner's callers: init() with its sweep, the page and the observer.
\* The probe and the globals monitor, which share only the buffer with the
\* scanner, are left out.
InitScan == InitOf(ScanInputs)
NextScan ==
    \/ ConfigFails(ScanInputs)
    \/ ConfigStandsBy(ScanInputs)
    \/ ConfigThenCache(ScanInputs)
    \/ ConfigThenFetch(ScanInputs)
    \/ SignaturesFail(ScanInputs)
    \/ SignaturesArrive(ScanInputs)
    \/ ObserverCallback
    \/ FlushTimer
    \/ PageInsert(ScanInputs)
    \/ PageRemove
SpecScan == InitScan /\ [][NextScan]_vars

(***************************************************************************)
(* SpecReport: the reporter and the globals monitor, with enough           *)
(* detections to fill the buffer, with and without a reporting endpoint.   *)
(***************************************************************************)
ReportConfigs ==
    {[enabled |-> TRUE, mode |-> m, layers |-> Layers(TRUE, TRUE, FALSE),
      whitelist |-> wl, reporting |-> r] :
        m \in {"active", "report-only"},
        wl \in {Undefined, Def(FullWhitelist)},
        r \in {Undefined, Reporting(TRUE), Reporting(FALSE)}}

ReportInputs ==
    [configs        |-> ReportConfigs \cup {DisabledConfig},
     configFailures |-> {"rejected"},
     sigBodies      |-> {NoBaitSignatures},
     sigFailures    |-> {"rejected"},
     caches         |-> {Def([ts |-> 2 * CacheTtlMs, data |-> NoBaitSignatures])},
     hrefs          |-> {ShopUrl},
     clocks         |-> {2 * CacheTtlMs},
     windows        |-> {{}, {<<"honey">>, <<"coupon">>}},
     globals        |-> {},
     docs           |-> {Document({})},
     palettes       |-> {{PopupDiv}},
     maxInserts     |-> MaxReportInserts,
     builds         |-> {"report-processor"}]

\* The reporter's callers: the scanner (sweep and observer), the globals
\* monitor and the flush timer.  The names on window are those of the
\* page at load; the probe is left out, and the signatures come from the
\* cache.
InitReport == InitOf(ReportInputs)
NextReport ==
    \/ ConfigFails(ReportInputs)
    \/ ConfigStandsBy(ReportInputs)
    \/ ConfigThenCache(ReportInputs)
    \/ ObserverCallback
    \/ FlushTimer
    \/ GlobalsTimer
    \/ PageInsert(ReportInputs)
    \/ PageRemove
SpecReport == InitReport /\ [][NextReport]_vars

(***************************************************************************)
(* SpecProbe: the ad-blocker probe and the sweep, with a page that inserts *)
(* detected elements while the probe's timer is pending, signature         *)
(* responses with and without patterns, and an <html> with a class.        *)
(***************************************************************************)
\* <html class="no-js"><body></body></html>
ClassedDocument == [Document({}) EXCEPT ![HtmlNode].el.cls = <<"no-js">>]

ProbeConfigs ==
    {[enabled |-> TRUE, mode |-> m, layers |-> Layers(TRUE, TRUE, FALSE),
      whitelist |-> Undefined, reporting |-> r] :
        m \in {"active", "report-only"}, r \in {Undefined, Reporting(TRUE)}}

ProbeInputs ==
    [configs        |-> ProbeConfigs \cup {DisabledConfig},
     configFailures |-> {"rejected"},
     sigBodies      |-> {FullSignatures, ErrorBody},
     sigFailures    |-> {"rejected"},
     caches         |-> {Undefined, Def([ts |-> 2 * CacheTtlMs, data |-> FullSignatures])},
     hrefs          |-> {ShopUrl},
     clocks         |-> {2 * CacheTtlMs},
     windows        |-> {{}},
     globals        |-> {},
     docs           |-> {Document({}), ClassedDocument},
     palettes       |-> {{PopupDiv}},
     maxInserts     |-> MaxProbeInserts,
     builds         |-> {"report-processor"}]

\* What runs in the first 100 ms after init(): the sweep, the observer, the
\* probe's timeout, and possibly a first flush.
InitProbe == InitOf(ProbeInputs)
NextProbe ==
    \/ ConfigFails(ProbeInputs)
    \/ ConfigStandsBy(ProbeInputs)
    \/ ConfigThenCache(ProbeInputs)
    \/ ConfigThenFetch(ProbeInputs)
    \/ SignaturesFail(ProbeInputs)
    \/ SignaturesArrive(ProbeInputs)
    \/ ObserverCallback
    \/ FlushTimer
    \/ BaitTimeout
    \/ PageInsert(ProbeInputs)
    \/ PageRemove
SpecProbe == InitProbe /\ [][NextProbe]_vars

(***************************************************************************)
(* SpecUplink: the life of a buffered event, from report() to the          *)
(* transport or to the unloading of the page.  The flush timer is a        *)
(* setInterval, so it fires again and again while the page is loaded:      *)
(* weak fairness of FlushTimer.                                            *)
(***************************************************************************)
UplinkConfigs ==
    {[enabled |-> TRUE, mode |-> m, layers |-> Layers(TRUE, TRUE, FALSE),
      whitelist |-> Undefined, reporting |-> Reporting(TRUE)] :
        m \in {"active", "report-only"}}

UplinkInputs ==
    [configs        |-> UplinkConfigs \cup {DisabledConfig},
     configFailures |-> {"rejected"},
     sigBodies      |-> {NoBaitSignatures},
     sigFailures    |-> {"rejected"},
     caches         |-> {Def([ts |-> 2 * CacheTtlMs, data |-> NoBaitSignatures])},
     hrefs          |-> {ShopUrl},
     clocks         |-> {2 * CacheTtlMs},
     windows        |-> {{}, {<<"honey">>, <<"coupon">>}},
     globals        |-> {},
     docs           |-> {Document({})},
     palettes       |-> {{PopupDiv}},
     maxInserts     |-> MaxUplinkInserts,
     builds         |-> {"report-processor"}]

InitUplink == InitOf(UplinkInputs)
NextUplink ==
    \/ ConfigFails(UplinkInputs)
    \/ ConfigStandsBy(UplinkInputs)
    \/ ConfigThenCache(UplinkInputs)
    \/ ObserverCallback
    \/ FlushTimer
    \/ GlobalsTimer
    \/ (pc # "unloaded" /\ PageInsert(UplinkInputs))
    \/ (pc # "unloaded" /\ PageRemove)
    \/ PageUnload
SpecUplink == InitUplink /\ [][NextUplink]_vars /\ WF_vars(FlushTimer)

(***************************************************************************)
(* SpecIngest: the engine's payloads and the batches of other clients, as  *)
(* each build of the ingestion worker answers them.                        *)
(***************************************************************************)
\* <div class='promo "big"'>: its class name has quotes in it
QuotedDiv == Element("DIV", <<>>, <<>>, <<"promo", " ", "\"", "big", "\"">>, {}, PlainStyle)
\* <div class="promo\n">: a class name with a backslash in it
BackslashDiv == Element("DIV", <<>>, <<>>, <<"promo", "\\", "n">>, {}, PlainStyle)

\* The body another client posts: one event for each url, undefined for an
\* event without one.
Literal(str) == IF IsDef(str) THEN Def(Escape(Get(str))) ELSE Undefined
PostedEvent(url) ==
    [ts |-> Def(1), session_id |-> Literal(Def(<<"session-2">>)),
     type |-> Literal(Def(<<"id_match">>)),
     details |-> Def([detail |-> Literal(Def(<<"popup">>)), tag |-> Literal(Def(<<"DIV">>))]),
     action |-> Literal(Def(<<"log">>)),
     url |-> Literal(url)]
PostedText(clientId, sessionId, urls) ==
    [clientId |-> Literal(clientId), sessionId |-> Literal(sessionId),
     events |-> Def([i \in 1..Len(urls) |-> PostedEvent(urls[i])])]
\* a body cut off inside a string
Truncated(text) == [text EXCEPT !.clientId = Def(<< <<"\\">> >>)]

RelativeUrl == <<"/", "cart", "?", "a">>
LongUrl == [i \in 1..(PathMaxLen + 1) |-> "x"]
OtherClient == Def(<<"client-2">>)

Posts ==
    {PostedText(OtherClient, Undefined, <<Def(ShopUrl)>>),
     PostedText(OtherClient, Undefined, <<Def(RelativeUrl), Def(ShopUrl)>>),
     PostedText(OtherClient, Undefined, <<Def(ShopUrl), Def(LongUrl)>>),
     PostedText(OtherClient, Undefined, <<Undefined>>),
     PostedText(OtherClient, Def(<<"session-2">>), <<Def(RelativeUrl), Def(ShopUrl)>>),
     PostedText(OtherClient, Def(<<"session-2">>), <<Undefined>>),
     PostedText(OtherClient, Undefined, <<>>),
     PostedText(Undefined, Undefined, <<Def(ShopUrl)>>),
     Truncated(PostedText(OtherClient, Undefined, <<Def(ShopUrl)>>))}

IngestConfigs ==
    {[enabled |-> TRUE, mode |-> m, layers |-> Layers(TRUE, TRUE, FALSE),
      whitelist |-> Undefined, reporting |-> Reporting(TRUE)] :
        m \in {"report-only"}}

IngestInputs ==
    [configs        |-> IngestConfigs,
     configFailures |-> {"rejected"},
     sigBodies      |-> {NoBaitSignatures},
     sigFailures    |-> {"rejected"},
     caches         |-> {Def([ts |-> 2 * CacheTtlMs, data |-> NoBaitSignatures])},
     hrefs          |-> {ShopUrl},
     clocks         |-> {2 * CacheTtlMs},
     windows        |-> {{<<"honey">>}},
     globals        |-> {},
     docs           |-> {Document({})},
     palettes       |-> {{QuotedDiv, BackslashDiv}},
     maxInserts     |-> MaxIngestInserts,
     builds         |-> Builds,
     posts          |-> Posts,
     maxPosts       |-> MaxPosts]

InitIngest == InitOf(IngestInputs)
NextIngest ==
    \/ ConfigThenCache(IngestInputs)
    \/ ObserverCallback
    \/ FlushTimer
    \/ GlobalsTimer
    \/ PageInsert(IngestInputs)
    \/ Deliver
    \/ Post(IngestInputs)
SpecIngest == InitIngest /\ [][NextIngest]_vars

(***************************************************************************)
(* SpecWire: the engine's payloads alone, from the buffer through the body *)
(* to the events the worker of report-processor.js parses.                 *)
(***************************************************************************)
WireInputs ==
    [IngestInputs EXCEPT !.builds = {"report-processor"},
                         !.configs = UplinkConfigs,
                         !.windows = {{<<"honey">>}, {<<"honey">>, <<"coupon">>}},
                         !.maxInserts = MaxWireInserts]

InitWire == InitOf(WireInputs)
NextWire ==
    \/ ConfigThenCache(WireInputs)
    \/ ObserverCallback
    \/ FlushTimer
    \/ GlobalsTimer
    \/ PageInsert(WireInputs)
    \/ Deliver
SpecWire == InitWire /\ [][NextWire]_vars

(***************************************************************************)
(* SpecTree: the observers of the static and behavioural layers, over a    *)
(* page that inserts nodes of every kind, subtrees built outside the       *)
(* document, and shadow roots with content of their own.                   *)
(***************************************************************************)
TreeConfigs ==
    {[enabled |-> TRUE, mode |-> m, layers |-> Layers(TRUE, behavioral, FALSE),
      whitelist |-> Undefined, reporting |-> Reporting(TRUE)] :
        m \in {"active", "report-only"}, behavioral \in BOOLEAN}

TreeInputs ==
    [IngestInputs EXCEPT !.configs = TreeConfigs,
                         !.windows = {{}},
                         !.palettes = {{PlainDiv, PopupDiv}},
                         !.maxInserts = MaxTreeInserts,
                         !.builds = {"report-processor"}]

InitTree == InitOf(TreeInputs)
NextTree ==
    \/ ConfigThenCache(TreeInputs)
    \/ ObserverCallback
    \/ ShadowObserverCallback
    \/ PageInsertTree(TreeInputs)
    \/ PageAttachShadow(TreeInputs)
SpecTree == InitTree /\ [][NextTree]_vars

(***************************************************************************)
(* SpecServe: the ingestion worker alone, each build of it, answering the  *)
(* bodies other clients post while the database is up or down.             *)
(***************************************************************************)
\* a body without an events member
WithoutEvents(text) == [text EXCEPT !.events = Undefined]
\* a body whose last event has no type
LastUntyped(text) ==
    LET events == Get(text.events)
    IN  [text EXCEPT !.events = Def([events EXCEPT ![Len(events)].type = Undefined])]

ServePosts ==
    Posts \cup
    {WithoutEvents(PostedText(OtherClient, Def(<<"session-2">>), <<>>)),
     PostedText(Def(<<>>), Def(<<"session-2">>), <<Def(ShopUrl), Def(ShopUrl)>>),
     PostedText(OtherClient, Def(<<"session-2">>), <<Def(ShopUrl), Def(ShopUrl)>>),
     LastUntyped(PostedText(OtherClient, Def(<<"session-2">>),
                            <<Def(ShopUrl), Def(ShopUrl)>>))}

ServeInputs == [IngestInputs EXCEPT !.posts = ServePosts, !.maxPosts = MaxServePosts]

InitServe == InitOf(ServeInputs)
NextServe == Post(ServeInputs)
SpecServe == InitServe /\ [][NextServe]_vars

(* ------------------------- claims: the scanner ------------------------ *)

\* What a claim says of one recorded scanNode call c, from the element's
\* attributes and the configured lists alone.
ConfiguredSelectors ==
    IF IsDef(config.whitelist) /\ IsDef(Get(config.whitelist).selectors)
    THEN Get(Get(config.whitelist).selectors) ELSE {}
ConfiguredScriptSrc ==
    IF IsDef(config.whitelist) /\ IsDef(Get(config.whitelist).scriptSrc)
    THEN Get(Get(config.whitelist).scriptSrc) ELSE {}
ConfiguredIframeHosts ==
    IF IsDef(config.whitelist) /\ IsDef(Get(config.whitelist).iframeHosts)
    THEN Get(Get(config.whitelist).iframeHosts) ELSE {}
Configured(list) == IF HasList(signatures, list) THEN List(signatures, list) ELSE {}

CoveredBySelector(c) ==
    \E i \in 1..Len(c.chain) : c.chain[i].sel \cap ConfiguredSelectors # {}
CoveredByAncestorOnly(c) ==
    /\ c.chain[1].sel \cap ConfiguredSelectors = {}
    /\ \E i \in 2..Len(c.chain) : c.chain[i].sel \cap ConfiguredSelectors # {}
SourceExempt(c) ==
    LET el == c.chain[1] IN
    \/ el.tag = "SCRIPT" /\ \E x \in ConfiguredScriptSrc : Includes(el.src, x)
    \/ el.tag = "IFRAME" /\ \E x \in ConfiguredIframeHosts : Includes(el.src, x)
Exempt(c) == CoveredBySelector(c) \/ SourceExempt(c)

ScriptHit(c) ==
    c.chain[1].tag = "SCRIPT"
        /\ \E s \in Configured("scriptSrcPatterns") : Includes(c.chain[1].src, s)
IframeHit(c) ==
    c.chain[1].tag = "IFRAME"
        /\ \E s \in Configured("iframeSrcPatterns") : Includes(c.chain[1].src, s)
IdHit(c) == c.chain[1].id \in Configured("ids")
ClassHit(c) == \E x \in Configured("classNames") : Includes(c.chain[1].cls, x)
OverlayHit(c) ==
    /\ IsDef(config.layers) /\ Get(config.layers).domShield
    /\ c.chain[1].pos \in {"fixed", "absolute"}
    /\ IsDef(c.chain[1].z) /\ Get(c.chain[1].z) > OverlayZIndex
    /\ \E t \in Configured("textPatterns") : Includes(c.chain[1].text, t)
AnySignatureHit(c) == ScriptHit(c) \/ IframeHit(c) \/ IdHit(c) \/ ClassHit(c) \/ OverlayHit(c)

\* The rule that wins in the order whitelist > script source > iframe
\* source > id > class > overlay.
FirstRule(c) ==
    IF Exempt(c) THEN "none"
    ELSE IF ScriptHit(c) THEN "script_src_match"
    ELSE IF IframeHit(c) THEN "iframe_src_match"
    ELSE IF IdHit(c) THEN "id_match"
    ELSE IF ClassHit(c) THEN "class_match"
    ELSE IF OverlayHit(c) THEN "heuristic_overlay"
    ELSE "none"

Calls == {log[i] : i \in 1..Len(log)}

\* C1: a scanNode call on an element that matches a configured whitelist
\* selector, itself or through any ancestor of its parent chain, appends no
\* event and leaves the element where it is, in every mode and whatever
\* signature its source, id, class or overlay style matches.
C1_WhitelistedNeverDetected ==
    \A c \in Calls :
        CoveredBySelector(c) => c.emitted = <<>> /\ c.linkedAfter = c.linkedBefore

\* C1 witness: in active mode, a linked script whose source and id match
\* signatures was scanned and was exempt only because of an ancestor.
C1_Witness ==
    \E c \in Calls :
        /\ CoveredByAncestorOnly(c)
        /\ ~SourceExempt(c)
        /\ ScriptHit(c) /\ IdHit(c)
        /\ config.mode = "active"
        /\ c.linkedBefore /\ c.linkedAfter /\ c.emitted = <<>>

C10_FirstMatchWins ==
    \A c \in Calls :
        /\ Len(c.emitted) <= 1
        /\ FirstRule(c) = "none" => c.emitted = <<>>
        /\ Len(c.emitted) = 1 => c.emitted[1].type = FirstRule(c)
        /\ FirstRule(c) # "none" /\ c.emitted = <<>> =>
               config.mode # "report-only" /\ c.chain[1].ownRemove

\* C10 witness: a non-exempt script matching a source pattern, a listed id
\* and a listed class was scanned and yielded only script_src_match.
C10_Witness ==
    \E c \in Calls :
        /\ ~Exempt(c)
        /\ ScriptHit(c) /\ IdHit(c) /\ ClassHit(c)
        /\ Len(c.emitted) = 1 /\ c.emitted[1].type = "script_src_match"

(* ------------------ claims: the monitor and the reporter -------------- *)

ConfiguredGlobalVars ==
    IF HasList(signatures, "globalVars")
    THEN {List(signatures, "globalVars")[i] : i \in 1..Len(List(signatures, "globalVars"))}
    ELSE {}
WhitelistedGlobals ==
    IF IsDef(config.whitelist) /\ IsDef(Get(config.whitelist).globals)
    THEN Get(Get(config.whitelist).globals) ELSE {}

\* The events appended so far that report the global variable name.
GlobalEvents(name) ==
    {i \in 1..Len(appended) :
        appended[i].type = "global_var_detected" /\ appended[i].details.detail = name}

EndpointConfigured == IsDef(config.reporting) /\ Get(config.reporting).endpoint

\* C2: a configured global variable name that is not whitelisted and was on
\* window during a completed poll cycle has exactly one global_var_detected
\* event, with action log, however many cycles have run.
C2_ExactlyOnePerGlobal ==
    \A name \in (ConfiguredGlobalVars \ WhitelistedGlobals) \cap polled :
        /\ Cardinality(GlobalEvents(name)) = 1
        /\ \A i \in GlobalEvents(name) : appended[i].action = "log"

\* C2, where the config has a reporting section (so that flushReports
\* cannot throw out of the poll cycle): the same statement.
C2_ExactlyOnePerGlobalWithReporting ==
    IsDef(config.reporting) => C2_ExactlyOnePerGlobal

\* C2, second half: reportedGlobals only grows.
C2_ReportedOnlyGrows == [][reported \subseteq reported']_vars

\* C3: a global variable name of config.whitelist.globals is never added to
\* reportedGlobals and never gets a global_var_detected event, whether or
\* not it is on window and however many poll cycles have run.
C3_WhitelistedGlobalSilent ==
    \A name \in WhitelistedGlobals :
        name \notin reported /\ GlobalEvents(name) = {}

\* C3 witness: a whitelisted, configured name was on window during at
\* least two poll cycles, in which another name was reported.
C3_Witness ==
    /\ \E name \in WhitelistedGlobals \cap ConfiguredGlobalVars : name \in polled
    /\ polls >= 2
    /\ reported # {}

\* The events a step appends.
Appended == SubSeq(appended', Len(appended) + 1, Len(appended'))

\* The groups of FlushThreshold events a flush on reaching the threshold
\* cuts from the front of evs, and what is left of evs after them.
RECURSIVE FullGroups(_)
FullGroups(evs) ==
    IF Len(evs) < FlushThreshold THEN <<>>
    ELSE <<SubSeq(evs, 1, FlushThreshold)>>
             \o FullGroups(SubSeq(evs, FlushThreshold + 1, Len(evs)))
LeftOver(evs) == SubSeq(evs, Len(evs) - (Len(evs) % FlushThreshold) + 1, Len(evs))

PayloadsOf(payloads) == [i \in 1..Len(payloads) |-> payloads[i].events]

\* What the claim says of a step that appends events: the events buffered
\* before it and those it appends leave as one payload per full group of
\* five, in order, and the rest stays buffered.  From an empty buffer: the
\* appends 1 to 4 hand nothing over, the 5th hands over one payload of
\* those five and leaves the buffer empty.
FlushesOnFifth ==
    /\ PayloadsOf(sent') = PayloadsOf(sent) \o FullGroups(buf \o Appended)
    /\ buf' = LeftOver(buf \o Appended)

\* C4 as stated: every step that appends events flushes on the fifth.
C4_FifthAppendFlushes == [][appended' # appended => FlushesOnFifth]_vars

\* What the code does on a step that appends events when no reporting
\* endpoint is configured: nothing is handed over, every event stays.
KeepsAllBuffered == sent' = sent /\ buf' = buf \o Appended

\* C4 as amended: with a reporting endpoint configured, every step that
\* appends events flushes on the fifth; with no endpoint configured (or no
\* reporting section) such a step hands nothing over and the buffer keeps
\* every event appended.
C4_FifthAppendFlushesWithEndpoint ==
    [][appended' # appended =>
         IF EndpointConfigured' THEN FlushesOnFifth ELSE KeepsAllBuffered]_vars

\* C4 witness: five events were appended, the fifth append handed over the
\* one payload of the five and left the buffer empty.
C4_Witness ==
    /\ EndpointConfigured
    /\ Len(appended) = 5
    /\ Len(sent) = 1 /\ sent[1].events = appended
    /\ buf = <<>>

RECURSIVE Concat(_)
Concat(seqs) == IF seqs = <<>> THEN <<>> ELSE Head(seqs) \o Concat(Tail(seqs))

\* C5: the payloads handed to the transport, in order, followed by the
\* buffer are exactly the events appended, in order: no event is dropped
\* before a flush and none is in two payloads.
C5_PayloadsThenBufferAreTheEvents ==
    Concat(PayloadsOf(sent)) \o buf = appended

\* C5 witness: a flush on the threshold and a flush by the timer have
\* both happened.
C5_Witness ==
    /\ Len(sent) >= 2
    /\ \E i \in 1..Len(sent) : Len(sent[i].events) = 5
    /\ \E i \in 1..Len(sent) : Len(sent[i].events) < 5

(* ------------------------- claims: init() ----------------------------- *)

\* No subsystem is active: no document observer, no attachShadow hook, no
\* flush timer, no globals timer, no probe timer.
NoSubsystemActive ==
    ~observer /\ ~hooked /\ ~flushTimer /\ ~globalsTimer /\ ~baitTimer

\* The engine has not touched the page: nothing was ever scanned, no event
\* was ever appended and the bait element was never created.
NothingDone == scans = 0 /\ appended = <<>> /\ ~dom[BaitNode].used

\* C6: when the config fetch has failed, no mutation subscription exists,
\* no element was scanned, attachShadow is unpatched, no timer runs and no
\* bait element was inserted.
C6_ConfigFailureStartsNothing ==
    pc = "configFailed" => NoSubsystemActive /\ NothingDone

\* C6 witness: the config fetch has failed and the page has inserted an
\* element since.
C6_Witness == pc = "configFailed" /\ inserts >= 1

\* C7: when init() has ended in its catch, whatever threw, no subsystem
\* is active.
C7_NoSubsystemAfterError ==
    pc \in {"configFailed", "signaturesFailed", "engageFailed"} => NoSubsystemActive

\* The gate of init() stops it: the config is not enabled, or the URL is
\* in the sensitive zone and the mode is not "active-checkout".
GateAborts ==
    ~config.enabled \/ (SafetyRegexTest(href) /\ config.mode # "active-checkout")

\* C8: once the config has arrived, init() has returned early exactly when
\* the config is not enabled or the URL is in the sensitive zone and the
\* mode is not "active-checkout" (so the mode "active-checkout" is not
\* stopped by the sensitive zone); after the early return no signatures
\* were loaded and no subsystem was started.
C8_GateStopsBeforeSignatures ==
    pc \notin {"fetchConfig", "configFailed"} =>
        /\ GateAborts <=> pc \in {"disabled", "standby"}
        /\ pc \in {"disabled", "standby"} =>
               /\ NoSubsystemActive /\ NothingDone
               /\ signatures = EmptySignatures

\* C8 witness: init() has returned early for an enabled config on a URL of
\* the sensitive zone, and the page has inserted an element since.
C8_Witness ==
    /\ pc = "standby"
    /\ config.enabled /\ SafetyRegexTest(href)
    /\ inserts >= 1

(* --------------------- claims: the probe and errors ------------------- *)

AdblockEvents ==
    {i \in 1..Len(appended) : appended[i].type = "extension_adblock_detected"}

\* C11, the events: the probe appends at most one
\* extension_adblock_detected event, with action warn, and only from its
\* timer callback.
C11_AtMostOneProbeEvent ==
    /\ Cardinality(AdblockEvents) <= 1
    /\ \A i \in AdblockEvents : appended[i].action = "warn" /\ ~baitTimer

\* C11, the bait: when the probe's timer is not pending (it has fired, or
\* the probe never ran), the bait element is not in the document.
C11_BaitGoneAfterTimeout == ~baitTimer => ~InDocument(dom, BaitNode)

\* C11: the probe appends at most one extension_adblock_detected event
\* (action warn, from its timer callback), and in every case the bait
\* element is no longer in the document after the timer callback.
C11_ProbeOnceAndBaitRemoved == C11_AtMostOneProbeEvent /\ C11_BaitGoneAfterTimeout

\* C15: no error leaves a scanNode call into the forEach that made it, and
\* a sweep that has scanned <html> has gone on to scan <body>.
C15_ErrorContainedToNode ==
    /\ \A c \in Calls : ~c.threw
    /\ (\E c \in Calls : c.node = HtmlNode) => (\E c \in Calls : c.node = BodyNode)

(* ------------------------ claims: loadSignatures ---------------------- *)

\* The cache entry exists and its age is strictly less than 3 hours.
YoungerThanThreeHours(entry) ==
    IsDef(entry) /\ now - Get(entry).ts < 3 * 60 * 60 * 1000

\* The step of init() that passes the gate and enters loadSignatures.
EntersLoadSignatures ==
    pc = "fetchConfig" /\ pc' \in {"loadSigs", "running", "engageFailed"}
\* The step in which loadSignatures returns after a fetch.
ReturnsFromFetch ==
    pc = "loadSigs" /\ pc' \in {"running", "engageFailed"}

\* C12: loadSignatures takes the persisted set exactly when an entry exists
\* and is younger than 3 hours, and then leaves the entry as it is;
\* otherwise it awaits a fetch, with nothing scanned meanwhile, and on
\* return has persisted the fetched set with the timestamp of the load.
\* Hence whatever is scanned is scanned against the set of a cache entry
\* younger than 3 hours.
C12_CacheUsedIffYoungerThanThreeHours ==
    /\ [][EntersLoadSignatures =>
            IF YoungerThanThreeHours(cache)
            THEN pc' # "loadSigs" /\ signatures' = Get(cache).data /\ cache' = cache
            ELSE pc' = "loadSigs" /\ scans' = 0 /\ signatures' = EmptySignatures]_vars
    /\ [][ReturnsFromFetch => cache' = Def([ts |-> now, data |-> signatures'])]_vars
    /\ [](scans > 0 => YoungerThanThreeHours(cache) /\ signatures = Get(cache).data)

\* C12 witness: elements were scanned against a persisted set that was one
\* millisecond short of 3 hours old when it was loaded.
C12_Witness ==
    /\ sigResponse = "none" /\ scans > 0
    /\ IsDef(cache) /\ now - Get(cache).ts = 3 * 60 * 60 * 1000 - 1
    /\ signatures = Get(cache).data

\* The fetch of the signatures failed: it was rejected, or the response
\* was an error response (with or without a JSON body).
SignatureFetchFailed == sigResponse \in {"rejected", "not json", "error status"}

\* C13: when the signature fetch has failed, init() has ended in its catch
\* on the rejection of loadSignatures, the cache was not written, and no
\* subsystem was started.
C13_SignatureFailureStartsNothing ==
    SignatureFetchFailed =>
        /\ pc = "signaturesFailed"
        /\ ~(IsDef(cache) /\ Get(cache).ts = now)
        /\ NoSubsystemActive /\ NothingDone

\* C13 for the failures that reject: a rejected fetch or a body that is
\* not JSON.
C13_RejectionStartsNothing ==
    sigResponse \in {"rejected", "not json"} => C13_SignatureFailureStartsNothing

(* -------------------------- claims: the uplink ------------------------ *)

\* C14: whenever the buffer is empty or no reporting endpoint is
\* configured (the config may have no reporting section), a call of
\* flushReports changes nothing: nothing is sent, the buffer is as it was
\* and no error is raised.
C14_FlushIsNoOpWithoutEndpoint ==
    (buf = <<>> \/ ~EndpointConfigured) => flushReports(config, World) = World

\* C14 where the config has a reporting section.
C14_FlushIsNoOpWithReportingSection ==
    IsDef(config.reporting) => C14_FlushIsNoOpWithoutEndpoint

\* The events handed to the transport so far, in order.
HandedOver == Concat(PayloadsOf(sent))

\* C16: once the page has unloaded, every event that was appended has
\* been handed to the transport in some flush.
C16_NothingLostAtUnload == pc = "unloaded" => HandedOver = appended

\* C17: with a reporting endpoint configured, whenever events have been
\* appended that are not yet handed to the transport, eventually every
\* event appended so far is handed over, unless the page unloads first.
C17_EveryEventEventuallyHandedOver ==
    (EndpointConfigured /\ pc # "unloaded" /\ HandedOver # appended)
        ~> (HandedOver = appended \/ pc = "unloaded")

\* C17 witness: on a loaded page, fewer than five events were buffered and
\* the flush timer has handed them over.
C17_Witness ==
    /\ EndpointConfigured /\ pc = "running"
    /\ Len(sent) >= 1 /\ Len(sent[1].events) < FlushThreshold
    /\ buf = <<>> /\ HandedOver = appended

(* ----------------------- claims: the ingestion ------------------------ *)

EngineReplies == {i \in 1..Len(server.replies) : server.replies[i].from = "engine"}
RowsOf(i) == {k \in 1..Len(server.db) : server.db[k].request = i}

\* C18: every payload the engine's flush produces is accepted by the
\* ingestion handler when the database takes the batch: the reply is 200,
\* one row is stored for each event of the batch, and no two rows of the
\* table have the same id.
C18_EnginePayloadAccepted ==
    /\ \A i \in EngineReplies :
          server.replies[i].dbUp =>
              /\ server.replies[i].status = 200
              /\ server.replies[i].stored = server.replies[i].events
              /\ Cardinality(RowsOf(i)) = server.replies[i].events
    /\ \A k, m \in 1..Len(server.db) : k # m => server.db[k].id # server.db[m].id

\* What holds of C18: the handler of report-processor.js and the two
\* handlers without a session test accept every payload of the engine.
C18_AcceptedWithoutSessionTest ==
    server.build # "worker-legacy" => C18_EnginePayloadAccepted

\* The handler of dist/_worker.js that tests data.sessionId answers 400 to
\* every payload of the engine and stores nothing.
C18_LegacyRejectsEngine ==
    server.build = "worker-legacy" =>
        \A i \in EngineReplies :
            server.replies[i].status = 400 /\ server.replies[i].stored = 0

\* The batches with a client id, an event, and an event whose url new URL()
\* rejects, posted while the database is up.
UnparseableReplies ==
    {i \in 1..Len(server.replies) :
        server.replies[i].batch /\ server.replies[i].unparseable > 0
        /\ server.replies[i].dbUp}

Recovered(i) ==
    /\ server.replies[i].status = 200
    /\ server.replies[i].stored = server.replies[i].events
    /\ Cardinality(RowsOf(i)) = server.replies[i].events
    /\ \A k \in RowsOf(i) : Len(server.db[k].path) <= PathMaxLen

\* C19: a batch with an event whose url does not parse is answered 200 by
\* the handlers of report-processor.js, of the first fetch handler of
\* dist/_worker.js and of part_000, every event of the batch is stored, and
\* each stored path has at most 255 characters.
C19_UnparseableUrlRecovered ==
    server.build \in {"report-processor", "worker-bridge", "worker-sheets"} =>
        \A i \in UnparseableReplies : Recovered(i)

\* What holds of C19: the handler of report-processor.js recovers.
C19_ReportProcessorRecovers ==
    server.build = "report-processor" => \A i \in UnparseableReplies : Recovered(i)

\* The handlers without an inner catch answer 500 and store nothing.
C19_NoFallbackFailsBatch ==
    server.build \in {"worker-bridge", "worker-sheets"} =>
        \A i \in UnparseableReplies :
            server.replies[i].status = 500 /\ server.replies[i].stored = 0

\* The { type, action, url, details } of the elements of reportBuffer, and of
\* the events of a parsed body.
BufferTuples(events) ==
    [i \in 1..Len(events) |->
        [type |-> Def(<<events[i].type>>), action |-> Def(<<events[i].action>>),
         url |-> Def(events[i].url),
         details |-> Def([detail |-> Def(events[i].details.detail),
                          tag |-> IF IsDef(events[i].details.tag)
                                  THEN Def(<<Get(events[i].details.tag)>>) ELSE Undefined])]]
ParsedTuples(events) ==
    [i \in 1..Len(events) |->
        [type |-> events[i].type, action |-> events[i].action, url |-> events[i].url,
         details |-> events[i].details]]

RoundTrip(payload) == JSONparse(JSONstringify(payload))

\* C20: the body flushReports serializes parses, and the events of the
\* parsed body are, in order, the { type, action, url, details } of the
\* buffer at the flush.
C20_RoundTripKeepsTuples ==
    \A k \in 1..Len(sent) :
        /\ RoundTrip(sent[k]).ok
        /\ IsDef(RoundTrip(sent[k]).events)
        /\ ParsedTuples(Get(RoundTrip(sent[k]).events)) = BufferTuples(sent[k].events)

\* C20 witness: the worker has parsed a payload of two events or more, one
\* with a quote or a backslash in its detail and one without a tag.
C20_Witness ==
    \E k \in 1..Len(sent) :
        /\ server.received >= k
        /\ \E i, j \in 1..Len(sent[k].events) :
              /\ i # j
              /\ \E c \in 1..Len(sent[k].events[i].details.detail) :
                    sent[k].events[i].details.detail[c] \in {"\"", "\\"}
              /\ ~IsDef(sent[k].events[j].details.tag)

(* ------------------------ claims: the events -------------------------- *)

\* Every event the page load has produced, wherever it is now: pushed at
\* some time, still buffered, or in a payload handed over.
EventsOf(events) == {events[i] : i \in 1..Len(events)}
AllEvents ==
    EventsOf(appended) \cup EventsOf(buf)
        \cup UNION {EventsOf(sent[k].events) : k \in 1..Len(sent)}

\* C21: every event in the buffer or in a flushed payload has a timestamp
\* and a session id, and the session id is the one the script drew when it
\* was loaded, the same for all events of the page load.
C21_EventsCarrySessionAndTimestamp ==
    /\ SESSION_ID # ""
    /\ \A e \in AllEvents : e.ts \in Nat /\ e.session_id = SESSION_ID

\* C21 witness: events of two kinds from different callbacks, some handed
\* over and some still buffered.
C21_Witness ==
    /\ sent # <<>> /\ buf # <<>>
    /\ \E e, f \in AllEvents : e.type # f.type /\ e.ts # f.ts

\* The payloads a step hands over.
HandedByStep == SubSeq(sent', Len(sent) + 1, Len(sent'))

\* C24: a flush is one step with the callback it runs in.  In every step
\* the payloads handed over earlier stay as they were, and the payloads the
\* step hands over followed by the buffer it leaves are the buffer it found
\* followed by the events it pushed: a payload is the buffer at the flush,
\* an event pushed later is in no earlier payload and is not lost by the
\* reset.
C24_FlushIsAtomic ==
    [][/\ Len(sent') >= Len(sent) /\ SubSeq(sent', 1, Len(sent)) = sent
       /\ Len(appended') >= Len(appended) /\ SubSeq(appended', 1, Len(appended)) = appended
       /\ \A k \in 1..Len(HandedByStep) : HandedByStep[k].events # <<>>
       /\ Concat(PayloadsOf(HandedByStep)) \o buf' = buf \o Appended]_vars

\* C24 witness: a count-triggered flush and a timer-triggered flush have
\* both run, each with the events pushed since the flush before it.
C24_Witness ==
    /\ Len(sent) >= 2
    /\ \E k, m \in 1..Len(sent) :
          Len(sent[k].events) = FlushThreshold /\ Len(sent[m].events) < FlushThreshold
    /\ Concat(PayloadsOf(sent)) = appended

\* C28: with a reporting endpoint the buffer holds at most 4 events between
\* callbacks, and a report() called in the state returns with at most 4.
C28_BufferBelowThreshold ==
    EndpointConfigured =>
        /\ Len(buf) < FlushThreshold
        /\ Len(report(config, World, "id_match", PlainDetails(<<>>), "log").buf) < FlushThreshold

\* C28 witness: four events are buffered after an earlier flush, and the
\* next report() empties the buffer.
C28_Witness ==
    /\ EndpointConfigured /\ sent # <<>>
    /\ Len(buf) = FlushThreshold - 1
    /\ report(config, World, "id_match", PlainDetails(<<>>), "log").buf = <<>>

(* ------------------ claims: whitelist, overlay, modes ------------------ *)

UsedNodes == {n \in NodeIds : dom[n].used}
InState(n) == [chain |-> ChainOf(dom, n)]

\* C25: isWhitelisted(element) is true exactly when the element or an
\* ancestor of its parent chain matches a configured selector, or the element
\* is a script whose source contains a whitelisted script source, or an
\* iframe whose source contains a whitelisted host; without a whitelist it
\* is false for every element.
C25_WhitelistedIffCovered ==
    \A n \in UsedNodes :
        /\ isWhitelisted(config, dom, n) <=> Exempt(InState(n))
        /\ ~IsDef(config.whitelist) => ~isWhitelisted(config, dom, n)

\* C25 witness: with a whitelist, the document holds an iframe that is exempt
\* by its source alone, and it has been scanned.
C25_Witness ==
    /\ IsDef(config.whitelist)
    /\ \E c \in Calls :
          /\ dom[c.node].used /\ dom[c.node].el.tag = "IFRAME"
          /\ isWhitelisted(config, dom, c.node)
          /\ ~CoveredBySelector(InState(c.node))
          /\ IframeHit(InState(c.node))

OverlayEvents(events) == {i \in 1..Len(events) : events[i].type = "heuristic_overlay"}

\* C26: a scanNode call appends a heuristic_overlay event only when the
\* domShield layer is on, the element's position is fixed or absolute, its
\* z-index is above 2000 and its text contains a configured text pattern;
\* with the domShield layer off no heuristic_overlay event is ever appended.
C26_OverlayOnlyWhenShielded ==
    /\ \A c \in Calls : OverlayEvents(c.emitted) # {} => OverlayHit(c)
    /\ (IsDef(config.layers) /\ ~Get(config.layers).domShield) => OverlayEvents(appended) = {}

\* C26 witness: with the domShield layer on, an overlay was detected.
C26_Witness ==
    \E c \in Calls : OverlayEvents(c.emitted) # {} /\ OverlayHit(c)

\* C27: in report-only mode a scanNode call leaves the element where it is
\* and every event it appends has action 'log'; in another mode every event
\* it appends has action 'blocked' and the element was unlinked by
\* node.remove(), and a call whose node.remove() throws appends nothing.
C27_ActionFollowsMode ==
    \A c \in Calls :
        IF config.mode = "report-only"
        THEN /\ c.linkedAfter = c.linkedBefore
             /\ \A i \in 1..Len(c.emitted) : c.emitted[i].action = "log"
        ELSE /\ \A i \in 1..Len(c.emitted) :
                   c.emitted[i].action = "blocked" /\ ~c.linkedAfter /\ ~c.chain[1].ownRemove
             /\ c.chain[1].ownRemove => c.emitted = <<>> /\ c.linkedAfter = c.linkedBefore

\* C27 witness: in active mode an element whose node.remove() throws was
\* scanned and its id matches a signature.
C27_Witness ==
    \E c \in Calls :
        /\ config.mode = "active" /\ c.chain[1].ownRemove /\ IdHit(c) /\ ~Exempt(c)
        /\ c.linkedBefore /\ c.linkedAfter /\ c.emitted = <<>>

(* ------------------- claims: rejected and failed posts ------------------ *)

\* The rows of the table come from requests answered 200, and such a
\* request was a batch that parsed, reached a database that was up, and
\* left one row for each event.
RowsFromAccepted ==
    /\ \A k \in 1..Len(server.db) : server.replies[server.db[k].request].status = 200
    /\ \A i \in 1..Len(server.replies) :
          server.replies[i].status = 200 =>
              /\ server.replies[i].parsed /\ server.replies[i].batch
              /\ server.replies[i].dbUp
              /\ Cardinality(RowsOf(i)) = server.replies[i].events

\* C29: a POST /report whose body has no clientId, or whose events are
\* empty or missing, is answered 400 and writes nothing; a request whose
\* handling raises an error (a body that does not parse, an event that
\* cannot be bound, a batch the database fails) is answered 500 and leaves
\* no row of its batch, not even those of the events before the failure.
C29_RejectedAndFailedWriteNothing ==
    /\ \A i \in 1..Len(server.replies) :
          /\ server.replies[i].parsed /\ ~server.replies[i].batch =>
                /\ server.replies[i].status = 400
                /\ server.replies[i].stored = 0 /\ RowsOf(i) = {}
          /\ ~server.replies[i].parsed \/ (server.replies[i].batch /\ ~server.replies[i].dbUp)
                => server.replies[i].status # 200
          /\ ~server.replies[i].parsed => server.replies[i].status = 500
          /\ server.replies[i].status = 500 =>
                server.replies[i].stored = 0 /\ RowsOf(i) = {}
          /\ server.replies[i].status \in {200, 400, 500}
    /\ RowsFromAccepted

\* C29 witness: the worker has answered 400 to a body that parsed but had
\* no client id or no event, and 500 to a batch of two events or more.
C29_Witness ==
    \E i, j \in 1..Len(server.replies) :
        /\ server.replies[i].parsed /\ ~server.replies[i].batch
        /\ server.replies[i].status = 400
        /\ server.replies[j].batch /\ server.replies[j].events >= 2
        /\ server.replies[j].status = 500

(* ---------------------- claims: the two observers --------------------- *)

\* d is n or a descendant of n in n's own node tree.
RECURSIVE Under(_, _, _)
Under(d, x, n) ==
    IF x = n THEN TRUE
    ELSE IF d[x].parent = 0 \/ nodeType(d[x].el) = 11 THEN FALSE
    ELSE Under(d, d[x].parent, n)

\* The elements a batch of added nodes brought: the added nodes that are
\* elements, and the elements below them.
BroughtBy(d, nodes) ==
    {x \in NodeIds : d[x].used /\ nodeType(d[x].el) = 1
                       /\ \E i \in 1..Len(nodes) : Under(d, x, nodes[i])}

\* The scanNode calls of the step on node x.
CallsOn(x) == {i \in 1..Len(log') : log'[i].node = x}

\* The step is a callback of the document observer.
DocumentCallbackStep == observer /\ pending # <<>> /\ pending' = <<>> /\ pc' = pc

\* The step is a callback of the observer of shadow root r.
ShadowCallbackStep(r) ==
    /\ dom[r].observed /\ dom[r].queue # <<>>
    /\ dom'[r].used /\ dom'[r].queue = <<>> /\ pc' = pc

\* C22: when the document observer's callback has run on a batch, every
\* element the batch brought into the document that is still in it, added
\* on its own or as a descendant of an added subtree, has been passed to
\* scanNode exactly once, and no text or comment node has been.
C22_EveryAddedElementScanned ==
    [][DocumentCallbackStep =>
          /\ \A x \in BroughtBy(dom, pending) :
                InDocument(dom', x) => Cardinality(CallsOn(x)) = 1
          /\ \A i \in 1..Len(log') : nodeType(dom[log'[i].node].el) = 1]_vars

\* What holds of C22: each added node that is an element is passed to
\* scanNode exactly once, and nothing else is.
C22_AddedNodesScannedOnce ==
    [][DocumentCallbackStep =>
          /\ \A i \in 1..Len(pending) :
                nodeType(dom[pending[i]].el) = 1 => Cardinality(CallsOn(pending[i])) = 1
          /\ \A i \in 1..Len(log') :
                /\ nodeType(dom[log'[i].node].el) = 1
                /\ \E k \in 1..Len(pending) : pending[k] = log'[i].node]_vars

\* The shadow roots there are.
ShadowRoots == {r \in NodeIds : dom[r].used /\ nodeType(dom[r].el) = 11}

\* C23: once startBehavioralHooks has run, every shadow root made on the
\* page has an observer, and when that observer's callback has run on a
\* batch, every element the batch brought into the shadow tree that is
\* still in it has been passed to scanNode.
C23_ShadowRootsSubscribed ==
    /\ [](hooked => \A r \in ShadowRoots : dom[r].observed)
    /\ [][\A r \in NodeIds :
             ShadowCallbackStep(r) =>
                 \A x \in BroughtBy(dom, dom[r].queue) :
                     InDocument(dom', x) => CallsOn(x) # {}]_vars

\* What holds of C23: the patched function makes the shadow root the native
\* one makes, observed, and returns it; and the callback of a shadow root's
\* observer passes every added node that is an element to scanNode.
C23_PatchedCallSubscribes ==
    \A host \in NodeIds, n \in FreeTreeSlots(dom) :
        LET patched == patchedAttachShadow(dom, host, n)
            native == originalAttachShadow(dom, host, n)
        IN  /\ patched.shadowRoot = native.shadowRoot
            /\ patched.dom[patched.shadowRoot].observed
            /\ patched.dom = [native.dom EXCEPT ![native.shadowRoot].observed = TRUE]
C23_QueuedElementsScanned ==
    [][\A r \in NodeIds :
          ShadowCallbackStep(r) =>
              \A i \in 1..Len(dom[r].queue) :
                  nodeType(dom[dom[r].queue[i]].el) = 1 => CallsOn(dom[r].queue[i]) # {}]_vars

====
